---- MODULE Spec2Model ----
(***************************************************************************)
(* A model of the layered drawing canvas of comicos: the App component's   *)
(* layer list and project loading (src/src/renderer/src/App.tsx) and the   *)
(* Canvas component's layer store, stroke / flood-fill / clear operations, *)
(* swap-based history and asynchronous image loading                       *)
(* (src/unnamed/part_002, lines 1-537).                                    *)
(*                                                                         *)
(* One action models one event handler together with the React re-render   *)
(* and the effects (layer sync, recomposite) that the handler's state      *)
(* updates trigger before the next event is dispatched.                    *)
(***************************************************************************)
EXTENDS Integers, Sequences, FiniteSets, TLC

(***************************************************************************)
(* Bounds of the model.                                                    *)
(***************************************************************************)
\* canvas width and height in pixels (CanvasProps.width / height)
Width == 2
Height == 1
\* layer ids newLayerId() may hand out before the model stops creating layers
MaxLayerIds == 3
\* handler invocations the full specification explores
MaxSteps == 4
\* project loads (timers and image decodes) that may be in flight together
MaxPending == 1
\* handler invocations the long-history specification explores once the
\* history is one entry short of its bound
MaxLongSteps == 3
\* calls the flood-fill specification explores
MaxFillSteps == 2
\* calls the ten-by-ten scenario specification explores
MaxSceneSteps == 2
\* handler invocations of the stroke specification
MaxStrokeSteps == 4
\* the purge specification: handler invocations, and entries of the history
\* it starts from
MaxPurgeSteps == 2
MaxPurgeLen == 4
\* the canvas of the region specification
RegionWidth == 2
RegionHeight == 2
\* the one-row canvas of the edge specification
EdgeWidth == 5
\* handler invocations of the round-trip specification before the export
MaxRoundSteps == 3
\* handler invocations of the reorder specification
MaxOrderSteps == 3
\* handler invocations of the position specification
MaxPositionSteps == 3
\* handler invocations of the capture specification
MaxCaptureSteps == 4

(***************************************************************************)
(* Program constants.                                                      *)
(***************************************************************************)
maxHistory == 50
tolerance == 24
DefaultBrushSize == 3

Null == "null"
NoLayer == 0

NPix == Width * Height
PixelIdx == 1..NPix
Xs == 0..(Width - 1)
Ys == 0..(Height - 1)

\* colours as the RGB triple the 2d context resolves a CSS colour to
Black == <<0, 0, 0>>
Red == <<255, 0, 0>>
Colors == {Black, Red}
Tools == {"pen", "eraser", "fill"}

Transparent == <<0, 0, 0, 0>>
Opaque(c) == <<c[1], c[2], c[3], 255>>
BlankData == [i \in PixelIdx |-> Transparent]

Abs(n) == IF n < 0 THEN 0 - n ELSE n
Max2(a, b) == IF a > b THEN a ELSE b
Min2(a, b) == IF a < b THEN a ELSE b

\* index of pixel (x, y) in a buffer: y * width + x (1-based here)
Idx(x, y) == y * Width + x + 1
XOf(i) == (i - 1) % Width
YOf(i) == (i - 1) \div Width

(***************************************************************************)
(* Flood fill (floodFill, part_002 lines 149-256), on the pixel data of    *)
(* one layer of a canvas w pixels wide and h high.  target is the seed     *)
(* pixel's RGBA, fillRgb the fill colour.                                  *)
(***************************************************************************)
\* data[startIdx] .. data[startIdx + 3] with startIdx = (startY * width +
\* startX) * 4: the pixel at that index of the buffer, whichever pixel it is,
\* and undefined where the index is outside the buffer
Undefined == <<>>

SeedTarget(w, h, data, startX, startY) ==
    LET i == startY * w + startX + 1
    IN  IF i \in 1..(w * h) THEN data[i] ELSE Undefined

\* "Don't fill if same color": the seed already has the fill colour, opaque
\* (undefined === n is false)
SameAsFill(target, fillRgb) ==
    /\ target # Undefined
    /\ target[1] = fillRgb[1]
    /\ target[2] = fillRgb[2]
    /\ target[3] = fillRgb[3]
    /\ target[4] = 255

\* a match test that compares the colour channels only, not alpha (fault
\* injected to show that C24 depends on all four channels)
matchTarget_rgbOnly(px, target) ==
    /\ target # Undefined
    /\ Abs(px[1] - target[1]) <= tolerance
    /\ Abs(px[2] - target[2]) <= tolerance
    /\ Abs(px[3] - target[3]) <= tolerance

\* Math.abs(n - undefined) is NaN, and NaN <= tolerance is false
matchTarget(px, target) ==
    /\ target # Undefined
    /\ Abs(px[1] - target[1]) <= tolerance
    /\ Abs(px[2] - target[2]) <= tolerance
    /\ Abs(px[3] - target[3]) <= tolerance
    /\ Abs(px[4] - target[4]) <= tolerance

\* an iteration that fills without setting the visited mark
Pop_unmarked(w, h, s, target, fillRgb) ==
    IF s.stack = <<>>
    THEN s
    ELSE LET top == s.stack[Len(s.stack)]
             rest == SubSeq(s.stack, 1, Len(s.stack) - 1)
             x == top[1]
             y == top[2]
             pixelIdx == y * w + x + 1
         IN  IF x < 0 \/ x >= w \/ y < 0 \/ y >= h
             THEN [s EXCEPT !.stack = rest]
             ELSE IF ~matchTarget(s.data[pixelIdx], target)
             THEN [s EXCEPT !.stack = rest]
             ELSE [stack |-> rest \o << <<x + 1, y>>, <<x - 1, y>>,
                                       <<x, y + 1>>, <<x, y - 1>> >>,
                   visited |-> s.visited,
                   data |-> [s.data EXCEPT ![pixelIdx] = Opaque(fillRgb)]]

\* a loop body that pushes the left and right neighbours only (fault injected
\* to show that C16 depends on the four-neighbour connectivity)
Pop_horizontalOnly(w, h, s, target, fillRgb) ==
    IF s.stack = <<>>
    THEN s
    ELSE LET top == s.stack[Len(s.stack)]
             rest == SubSeq(s.stack, 1, Len(s.stack) - 1)
             x == top[1]
             y == top[2]
             pixelIdx == y * w + x + 1
         IN  IF x < 0 \/ x >= w \/ y < 0 \/ y >= h
             THEN [s EXCEPT !.stack = rest]
             ELSE IF pixelIdx \in s.visited
             THEN [s EXCEPT !.stack = rest]
             ELSE IF ~matchTarget(s.data[pixelIdx], target)
             THEN [s EXCEPT !.stack = rest]
             ELSE [stack |-> rest \o << <<x + 1, y>>, <<x - 1, y>> >>,
                   visited |-> s.visited \cup {pixelIdx},
                   data |-> [s.data EXCEPT ![pixelIdx] = Opaque(fillRgb)]]

\* one iteration of the while loop over the stack (nothing once the stack is
\* empty): pop, bounds test, visited test, match test, overwrite with the
\* opaque fill colour, push the four neighbours
Pop(w, h, s, target, fillRgb) ==
    IF s.stack = <<>>
    THEN s
    ELSE LET top == s.stack[Len(s.stack)]
             rest == SubSeq(s.stack, 1, Len(s.stack) - 1)
             x == top[1]
             y == top[2]
             pixelIdx == y * w + x + 1
         IN  IF x < 0 \/ x >= w \/ y < 0 \/ y >= h
             THEN [s EXCEPT !.stack = rest]
             ELSE IF pixelIdx \in s.visited
             THEN [s EXCEPT !.stack = rest]
             ELSE IF ~matchTarget(s.data[pixelIdx], target)
             THEN [s EXCEPT !.stack = rest]
             ELSE [stack |-> rest \o << <<x + 1, y>>, <<x - 1, y>>,
                                       <<x, y + 1>>, <<x, y - 1>> >>,
                   visited |-> s.visited \cup {pixelIdx},
                   data |-> [s.data EXCEPT ![pixelIdx] = Opaque(fillRgb)]]

\* eight iterations in a row
Pop8(w, h, s, target, fillRgb) ==
    LET s1 == Pop(w, h, s, target, fillRgb)
        s2 == Pop(w, h, s1, target, fillRgb)
        s3 == Pop(w, h, s2, target, fillRgb)
        s4 == Pop(w, h, s3, target, fillRgb)
        s5 == Pop(w, h, s4, target, fillRgb)
        s6 == Pop(w, h, s5, target, fillRgb)
        s7 == Pop(w, h, s6, target, fillRgb)
    IN  Pop(w, h, s7, target, fillRgb)

\* the while loop: iterate, eight iterations at a time, until the stack is
\* empty
RECURSIVE FillLoop(_, _, _, _, _)
FillLoop(w, h, s, target, fillRgb) ==
    IF s.stack = <<>>
    THEN s
    ELSE FillLoop(w, h, Pop8(w, h, s, target, fillRgb), target, fillRgb)

\* idx = py * width + px, 1-based here: px is (i - 1) % w, py (i - 1) \div w
hasExpandedNeighbor(w, h, i, expanded) ==
    \/ ((i - 1) % w > 0 /\ (i - 1) \in expanded)
    \/ ((i - 1) % w < w - 1 /\ (i + 1) \in expanded)
    \/ ((i - 1) \div w > 0 /\ (i - w) \in expanded)
    \/ ((i - 1) \div w < h - 1 /\ (i + w) \in expanded)

maxDiff(px, target) ==
    Max2(Abs(px[1] - target[1]),
         Max2(Abs(px[2] - target[2]), Abs(px[3] - target[3])))

\* Math.round(Math.min(255, Math.max(0, d + bgFraction * (f - t)))) with
\* bgFraction = 1 - maxDiff / 255, in exact arithmetic, halves rounded up
BlendChannel(d, f, t, md) ==
    LET num == 510 * d + 2 * (255 - md) * (f - t)
    IN  IF num <= 0 THEN 0
        ELSE IF num >= 510 * 255 THEN 255
        ELSE (num + 255) \div 510

\* with an undefined target the blend is NaN, which the buffer stores as 0
BlendPixel(px, target, fillRgb) ==
    IF target = Undefined
    THEN <<0, 0, 0, 255>>
    ELSE LET md == maxDiff(px, target)
         IN  << BlendChannel(px[1], fillRgb[1], target[1], md),
                BlendChannel(px[2], fillRgb[2], target[2], md),
                BlendChannel(px[3], fillRgb[3], target[3], md),
                255 >>

\* pixels one edge-expansion pass blends: outside the expanded set, next to
\* it, and not skipped by "if (bgFraction <= 0) continue" (maxDiff < 255, or
\* bgFraction NaN)
NewlyExpanded(w, h, data, expanded, target) ==
    { i \in 1..(w * h) :
          /\ i \notin expanded
          /\ hasExpandedNeighbor(w, h, i, expanded)
          /\ (target = Undefined \/ maxDiff(data[i], target) < 255) }

\* an edge expansion of four passes
RECURSIVE ExpandPasses_fourPasses(_, _, _, _, _, _, _)
ExpandPasses_fourPasses(w, h, pass, data, expanded, target, fillRgb) ==
    IF pass >= 4
    THEN data
    ELSE LET newly == NewlyExpanded(w, h, data, expanded, target)
         IN  ExpandPasses_fourPasses(w, h, pass + 1,
                          [i \in 1..(w * h) |->
                              IF i \in newly
                              THEN BlendPixel(data[i], target, fillRgb)
                              ELSE data[i]],
                          expanded \cup newly, target, fillRgb)

RECURSIVE ExpandPasses(_, _, _, _, _, _, _)
ExpandPasses(w, h, pass, data, expanded, target, fillRgb) ==
    IF pass >= 3
    THEN data
    ELSE LET newly == NewlyExpanded(w, h, data, expanded, target)
         IN  ExpandPasses(w, h, pass + 1,
                          [i \in 1..(w * h) |->
                              IF i \in newly
                              THEN BlendPixel(data[i], target, fillRgb)
                              ELSE data[i]],
                          expanded \cup newly, target, fillRgb)

\* an iteration that marks the pixel in the expanded mask as it blends it
ScanPixel_marksAtOnce(w, h, i, st, target, fillRgb) ==
    IF i \in st.expanded
    THEN st
    ELSE IF ~hasExpandedNeighbor(w, h, i, st.expanded)
    THEN st
    ELSE IF target # Undefined /\ maxDiff(st.data[i], target) >= 255
    THEN st
    ELSE [st EXCEPT !.data[i] = BlendPixel(st.data[i], target, fillRgb),
                    !.expanded = @ \cup {i},
                    !.newlyExpanded = Append(@, i)]

\* one iteration of the inner loops of an edge-expansion pass (lines
\* 221-244), on pixel i: st holds the pixel data, the expanded mask and the
\* newlyExpanded list
ScanPixel(w, h, i, st, target, fillRgb) ==
    IF i \in st.expanded
    THEN st
    ELSE IF ~hasExpandedNeighbor(w, h, i, st.expanded)
    THEN st
    ELSE IF target # Undefined /\ maxDiff(st.data[i], target) >= 255
    THEN st
    ELSE [st EXCEPT !.data[i] = BlendPixel(st.data[i], target, fillRgb),
                    !.newlyExpanded = Append(@, i)]

\* the scan of a pass over the pixels in row-major order, from pixel i on
RECURSIVE ScanFrom(_, _, _, _, _, _)
ScanFrom(w, h, i, st, target, fillRgb) ==
    IF i > w * h
    THEN st
    ELSE ScanFrom(w, h, i + 1, ScanPixel(w, h, i, st, target, fillRgb),
                  target, fillRgb)

\* one pass (lines 218-246): the scan, then newlyExpanded marked in expanded
ScanPass(w, h, data, expanded, target, fillRgb) ==
    LET st == ScanFrom(w, h, 1,
                       [data |-> data, expanded |-> expanded,
                        newlyExpanded |-> <<>>],
                       target, fillRgb)
        newly == {st.newlyExpanded[k] : k \in DOMAIN st.newlyExpanded}
    IN  [data |-> st.data, expanded |-> st.expanded \cup newly,
         newly |-> newly]

\* the hard-boundary phase: the stack loop from the seed, with its visited
\* set and the data it leaves
HardFill(w, h, data, startX, startY, fillRgb) ==
    FillLoop(w, h,
             [stack |-> << <<startX, startY>> >>, visited |-> {},
              data |-> data],
             SeedTarget(w, h, data, startX, startY), fillRgb)

\* the pixel data floodFill writes back with putImageData
FloodFilled(w, h, data, startX, startY, fillRgb) ==
    LET target == SeedTarget(w, h, data, startX, startY)
        hard == HardFill(w, h, data, startX, startY, fillRgb)
    IN  ExpandPasses(w, h, 0, hard.data, hard.visited, target, fillRgb)

(***************************************************************************)
(* Compositor (composite, part_002 lines 71-92), on a canvas w pixels wide  *)
(* and h high.  A layer canvas is a record [data, gco, strokeStyle]; the   *)
(* layer store maps ids to canvases.                                       *)
(***************************************************************************)
White == <<255, 255, 255, 255>>

\* one channel of drawImage at globalAlpha = opacity / 100, source-over, onto
\* an opaque destination
\* a blend that truncates instead of rounding to the nearest value (fault
\* injected to show that C20 depends on the rounding)
OverChannel_truncating(s, d, a, opacity) ==
    LET w == a * opacity
    IN  (s * w + d * (25500 - w)) \div 25500

OverChannel(s, d, a, opacity) ==
    LET w == a * opacity
        num == s * w + d * (25500 - w)
    IN  (2 * num + 25500) \div 51000

OverPixel(src, dst, opacity) ==
    << OverChannel(src[1], dst[1], src[4], opacity),
       OverChannel(src[2], dst[2], src[4], opacity),
       OverChannel(src[3], dst[3], src[4], opacity),
       255 >>

\* a loop that draws the layers from index 0 up to the last one (fault
\* injected to show that C18 depends on the drawing order)
RECURSIVE CompositeUp(_, _, _, _)
CompositeUp(i, ls, canvases, disp) ==
    IF i > Len(ls)
    THEN disp
    ELSE LET layer == ls[i]
         IN  IF ~layer.visible \/ layer.id \notin DOMAIN canvases
             THEN CompositeUp(i + 1, ls, canvases, disp)
             ELSE CompositeUp(i + 1, ls, canvases,
                     [p \in DOMAIN disp |->
                         OverPixel(canvases[layer.id].data[p], disp[p],
                                   layer.opacity)])

CompositeFrom_topFirst(i, ls, canvases, disp) ==
    CompositeUp(1, SubSeq(ls, 1, i), canvases, disp)

\* the loop for (i = layers.length - 1; i >= 0; i--), from index i down
RECURSIVE CompositeFrom(_, _, _, _)
CompositeFrom(i, ls, canvases, disp) ==
    IF i < 1
    THEN disp
    ELSE LET layer == ls[i]
         IN  IF ~layer.visible \/ layer.id \notin DOMAIN canvases
             THEN CompositeFrom(i - 1, ls, canvases, disp)
             ELSE CompositeFrom(i - 1, ls, canvases,
                     [p \in DOMAIN disp |->
                         OverPixel(canvases[layer.id].data[p], disp[p],
                                   layer.opacity)])

composite(w, h, ls, canvases) ==
    CompositeFrom(Len(ls), ls, canvases, [p \in 1..(w * h) |-> White])


(***************************************************************************)
(* State.                                                                  *)
(***************************************************************************)
VARIABLES
    \* App component (App.tsx)
    canvasSize,       \* Null until a size is confirmed or a project opened
    tool,             \* "pen" | "eraser" | "fill"
    color,            \* the chosen colour
    brushSize,
    currentFilePath,
    layers,           \* ordered Layer records, index 1 is the topmost
    activeLayerId,
    layerIdCounter,   \* module-level counter of newLayerId
    timers,           \* projects whose setTimeout(..., 100) has not fired yet
    \* Canvas component (part_002), alive while canvasSize is not Null
    layerCanvases,    \* layerCanvasesRef: layer id -> [data, gco, strokeStyle]
    display,          \* pixels of the display canvas
    isDrawing,
    lastPos,          \* <<>> (null) or <<x, y>>
    history,          \* historyRef: sequence of [layerId, imageData]
    historyIndex,     \* historyIndexRef
    beforeState,      \* beforeStateRef: <<>> (null) or <<pixel data>>
    loads,            \* image decodes in flight, per loadImage/loadLayerImages call
    \* observer of the run, written by the observed specifications only
    obs

appVars == <<canvasSize, tool, color, brushSize, currentFilePath, layers,
             activeLayerId, layerIdCounter, timers>>
canvasVars == <<layerCanvases, display, isDrawing, lastPos, history,
                historyIndex, beforeState, loads>>
coreVars == <<appVars, canvasVars>>
vars == <<appVars, canvasVars, obs>>

Mounted == canvasSize # Null

LayerIds(ls) == { ls[i].id : i \in 1..Len(ls) }

NewCanvas == [data |-> BlankData, gco |-> "source-over", strokeStyle |-> Black]

NoCanvases == [id \in {} |-> NewCanvas]

WhiteDisplay == [p \in PixelIdx |-> White]

\* newLayerId / createDefaultLayers (App.tsx lines 14-25)
DefaultLayer(id) == [id |-> id, name |-> 1, opacity |-> 100, visible |-> TRUE]

\* a sync effect without its "Remove deleted layers" loop (fault injected to
\* show that C7 depends on the reconciliation)
SyncCanvases_keepsRemoved(ls, map) ==
    [id \in LayerIds(ls) \cup DOMAIN map |->
        IF id \in DOMAIN map THEN map[id] ELSE NewCanvas]

\* the layer sync effect (part_002 lines 95-118): drop the canvases of ids no
\* longer listed, create a cleared canvas for every listed id without one
SyncCanvases(ls, map) ==
    [id \in LayerIds(ls) |-> IF id \in DOMAIN map THEN map[id] ELSE NewCanvas]

\* decodes whose target canvas the sync effect dropped keep their context, but
\* it now belongs to a canvas no longer in the store
DetachDecodes(ld, ls) ==
    [k \in 1..Len(ld) |->
        [ld[k] EXCEPT !.decodes =
            { [d EXCEPT !.live = d.live /\ d.id \in LayerIds(ls)] : d \in @ }]]

(***************************************************************************)
(* History (part_002 lines 126-147, 390-415, 490-506).                     *)
(***************************************************************************)
\* a commitAction that never shifts the oldest entry out (fault injected to show
\* that C1 depends on the shift)
commitAction_noShift(hist, idx, before, active) ==
    IF before = <<>>
    THEN [history |-> hist, historyIndex |-> idx]
    ELSE [history |-> Append(SubSeq(hist, 1, idx + 1),
                             [layerId |-> active, imageData |-> before[1]]),
          historyIndex |-> idx + 1]

\* a commitAction that shifts one entry too early, at length = maxHistory
\* (fault injected to show that C5 depends on the comparison)
commitAction_shiftsEarly(hist, idx, before, active) ==
    IF before = <<>>
    THEN [history |-> hist, historyIndex |-> idx]
    ELSE LET pushed == Append(SubSeq(hist, 1, idx + 1),
                              [layerId |-> active, imageData |-> before[1]])
         IN  IF Len(pushed) >= maxHistory
             THEN [history |-> Tail(pushed), historyIndex |-> idx]
             ELSE [history |-> pushed, historyIndex |-> idx + 1]

\* a commitAction that keeps the entries beyond the position (fault injected
\* to show that C25 depends on the truncation)
commitAction_noTruncate(hist, idx, before, active) ==
    IF before = <<>>
    THEN [history |-> hist, historyIndex |-> idx]
    ELSE LET pushed == Append(hist,
                              [layerId |-> active, imageData |-> before[1]])
         IN  IF Len(pushed) > maxHistory
             THEN [history |-> Tail(pushed), historyIndex |-> idx]
             ELSE [history |-> pushed, historyIndex |-> idx + 1]

\* commitAction: nothing without a pending before-snapshot; else truncate the
\* redo entries, push, and shift the oldest entry out or advance the index
commitAction(hist, idx, before, active) ==
    IF before = <<>>
    THEN [history |-> hist, historyIndex |-> idx]
    ELSE LET pushed == Append(SubSeq(hist, 1, idx + 1),
                              [layerId |-> active, imageData |-> before[1]])
         IN  IF Len(pushed) > maxHistory
             THEN [history |-> Tail(pushed), historyIndex |-> idx]
             ELSE [history |-> pushed, historyIndex |-> idx + 1]

\* the swap of undo and redo: the layer takes the entry's pixels, the entry the
\* layer's
SwapEntry(hist, canvases, k) ==
    LET entry == hist[k]
    IN  [history |-> [hist EXCEPT ![k].imageData = canvases[entry.layerId].data],
         canvases |-> [canvases EXCEPT ![entry.layerId].data = entry.imageData]]

\* an undo without historyIndexRef.current-- (fault injected to show that C2
\* depends on the position)
undo_noDecrement(hist, idx, canvases) ==
    IF idx < 0
    THEN [history |-> hist, historyIndex |-> idx, canvases |-> canvases,
          swapped |-> FALSE]
    ELSE IF hist[idx + 1].layerId \notin DOMAIN canvases
    THEN [history |-> hist, historyIndex |-> idx, canvases |-> canvases,
          swapped |-> FALSE]
    ELSE LET sw == SwapEntry(hist, canvases, idx + 1)
         IN  [history |-> sw.history, historyIndex |-> idx,
              canvases |-> sw.canvases, swapped |-> TRUE]

\* an undo that moves the position down even when it is below 0 (fault
\* injected to show that C23 depends on the early return)
undo_decrementsAtStart(hist, idx, canvases) ==
    IF idx < 0
    THEN [history |-> hist, historyIndex |-> idx - 1, canvases |-> canvases,
          swapped |-> FALSE]
    ELSE IF hist[idx + 1].layerId \notin DOMAIN canvases
    THEN [history |-> hist, historyIndex |-> idx, canvases |-> canvases,
          swapped |-> FALSE]
    ELSE LET sw == SwapEntry(hist, canvases, idx + 1)
         IN  [history |-> sw.history, historyIndex |-> idx - 1,
              canvases |-> sw.canvases, swapped |-> TRUE]

\* undo (part_002 lines 390-402)
undo(hist, idx, canvases) ==
    IF idx < 0
    THEN [history |-> hist, historyIndex |-> idx, canvases |-> canvases,
          swapped |-> FALSE]
    ELSE IF hist[idx + 1].layerId \notin DOMAIN canvases
    THEN [history |-> hist, historyIndex |-> idx, canvases |-> canvases,
          swapped |-> FALSE]
    ELSE LET sw == SwapEntry(hist, canvases, idx + 1)
         IN  [history |-> sw.history, historyIndex |-> idx - 1,
              canvases |-> sw.canvases, swapped |-> TRUE]

\* a redo without historyIndexRef.current++ (fault injected to show that C3
\* depends on the position)
redo_noAdvance(hist, idx, canvases) ==
    IF idx >= Len(hist) - 1
    THEN [history |-> hist, historyIndex |-> idx, canvases |-> canvases,
          swapped |-> FALSE]
    ELSE IF hist[idx + 2].layerId \notin DOMAIN canvases
    THEN [history |-> hist, historyIndex |-> idx, canvases |-> canvases,
          swapped |-> FALSE]
    ELSE LET sw == SwapEntry(hist, canvases, idx + 2)
         IN  [history |-> sw.history, historyIndex |-> idx,
              canvases |-> sw.canvases, swapped |-> TRUE]

\* redo (part_002 lines 403-415): the position advances before the context of
\* the entry's layer is looked up
redo(hist, idx, canvases) ==
    IF idx >= Len(hist) - 1
    THEN [history |-> hist, historyIndex |-> idx, canvases |-> canvases,
          swapped |-> FALSE]
    ELSE IF hist[idx + 2].layerId \notin DOMAIN canvases
    THEN [history |-> hist, historyIndex |-> idx + 1, canvases |-> canvases,
          swapped |-> FALSE]
    ELSE LET sw == SwapEntry(hist, canvases, idx + 2)
         IN  [history |-> sw.history, historyIndex |-> idx + 1,
              canvases |-> sw.canvases, swapped |-> TRUE]

RECURSIVE KeepOthers(_, _)
KeepOthers(hist, layerId) ==
    IF hist = <<>> THEN <<>>
    ELSE IF Head(hist).layerId = layerId
    THEN KeepOthers(Tail(hist), layerId)
    ELSE <<Head(hist)>> \o KeepOthers(Tail(hist), layerId)

\* a purge that does not subtract the removed entries from the position
\* (fault injected to show that C26 depends on the adjustment)
purgeLayerHistory_noAdjust(hist, idx, layerId) ==
    LET newHistory == KeepOthers(hist, layerId)
    IN  [history |-> newHistory,
         historyIndex |-> Min2(idx, Len(newHistory) - 1)]

\* a purge that leaves the position where it was
purgeLayerHistory_keepsPosition(hist, idx, layerId) ==
    [history |-> KeepOthers(hist, layerId), historyIndex |-> idx]

\* purgeLayerHistory (part_002 lines 490-506)
purgeLayerHistory(hist, idx, layerId) ==
    LET newHistory == KeepOthers(hist, layerId)
        removedBefore ==
            Cardinality({ i \in 1..Len(hist) :
                            hist[i].layerId = layerId /\ i - 1 <= idx })
    IN  [history |-> newHistory,
         historyIndex |-> Min2(idx - removedBefore, Len(newHistory) - 1)]


(***************************************************************************)
(* Drawing on a layer canvas.  A dot or a line segment covers whole        *)
(* pixels: with source-over they take the opaque style colour, with        *)
(* destination-out they become transparent.                                *)
(***************************************************************************)
Between(a, b, v) == Min2(a, b) <= v /\ v <= Max2(a, b)

LinePixels(from, to) ==
    { Idx(x, y) : x \in { v \in Xs : Between(from[1], to[1], v) },
                  y \in { v \in Ys : Between(from[2], to[2], v) } }

Paint(data, pixels, gco, style) ==
    [p \in PixelIdx |->
        IF p \in pixels
        THEN IF gco = "destination-out" THEN Transparent ELSE Opaque(style)
        ELSE data[p]]

ActiveCtx == activeLayerId \in DOMAIN layerCanvases

(***************************************************************************)
(* Canvas operations.                                                      *)
(***************************************************************************)
\* a floodFill without its "Don't fill if same color" return (fault injected to
\* show that C14 depends on it)
floodFill_noSameColorCheck(w, h, startX, startY) ==
    IF ~ActiveCtx
    THEN UNCHANGED coreVars
    ELSE LET data == layerCanvases[activeLayerId].data
             c == commitAction(history, historyIndex, <<data>>, activeLayerId)
         IN  /\ layerCanvases' =
                   [layerCanvases EXCEPT ![activeLayerId].data =
                       FloodFilled(w, h, data, startX, startY, color)]
             /\ history' = c.history
             /\ historyIndex' = c.historyIndex
             /\ beforeState' = <<>>
             /\ display' = composite(w, h, layers, layerCanvases')
             /\ UNCHANGED <<appVars, isDrawing, lastPos, loads>>

\* floodFill (part_002 lines 149-256) on a canvas of width w and height h
floodFill(w, h, startX, startY) ==
    IF ~ActiveCtx
    THEN UNCHANGED coreVars
    ELSE LET data == layerCanvases[activeLayerId].data
             target == SeedTarget(w, h, data, startX, startY)
         IN  IF SameAsFill(target, color)
             THEN /\ beforeState' = <<>>
                  /\ UNCHANGED <<appVars, layerCanvases, display, isDrawing,
                                 lastPos, history, historyIndex, loads>>
             ELSE LET c == commitAction(history, historyIndex, <<data>>,
                                        activeLayerId)
                  IN  /\ layerCanvases' =
                            [layerCanvases EXCEPT ![activeLayerId].data =
                                FloodFilled(w, h, data, startX, startY, color)]
                      /\ history' = c.history
                      /\ historyIndex' = c.historyIndex
                      /\ beforeState' = <<>>
                      /\ display' = composite(w, h, layers, layerCanvases')
                      /\ UNCHANGED <<appVars, isDrawing, lastPos, loads>>

\* handlePointerDown (part_002 lines 289-340) with the pen or the eraser
startStroke(x, y) ==
    /\ isDrawing' = TRUE
    /\ lastPos' = <<x, y>>
    /\ IF ~ActiveCtx
       THEN UNCHANGED <<beforeState, layerCanvases, display>>
       ELSE LET cv == layerCanvases[activeLayerId]
                gco == IF tool = "eraser" THEN "destination-out"
                                          ELSE "source-over"
                style == IF tool = "eraser" THEN Black ELSE color
            IN  /\ beforeState' = <<cv.data>>
                /\ layerCanvases' =
                      [layerCanvases EXCEPT ![activeLayerId] =
                          [data |-> Paint(cv.data, {Idx(x, y)}, gco, style),
                           gco |-> gco,
                           strokeStyle |-> style]]
                /\ display' = composite(Width, Height, layers, layerCanvases')
    /\ UNCHANGED <<appVars, history, historyIndex, loads>>

handlePointerDown(x, y) ==
    /\ Mounted
    /\ IF tool = "fill" THEN floodFill(Width, Height, x, y)
                        ELSE startStroke(x, y)

\* a draw-move that captures the before-snapshot again (fault injected to
\* show that C22 depends on the snapshot being taken at pointer-down only)
handlePointerMove_recaptures(x, y) ==
    /\ isDrawing
    /\ lastPos # <<>>
    /\ IF ~ActiveCtx
       THEN UNCHANGED coreVars
       ELSE LET cv == layerCanvases[activeLayerId]
            IN  /\ beforeState' = <<cv.data>>
                /\ layerCanvases' =
                      [layerCanvases EXCEPT ![activeLayerId].data =
                          Paint(cv.data, LinePixels(lastPos, <<x, y>>),
                                cv.gco, cv.strokeStyle)]
                /\ lastPos' = <<x, y>>
                /\ display' = composite(Width, Height, layers, layerCanvases')
                /\ UNCHANGED <<appVars, isDrawing, history, historyIndex,
                               loads>>

\* handlePointerMove (part_002 lines 342-358)
handlePointerMove(x, y) ==
    /\ isDrawing
    /\ lastPos # <<>>
    /\ IF ~ActiveCtx
       THEN UNCHANGED coreVars
       ELSE LET cv == layerCanvases[activeLayerId]
            IN  /\ layerCanvases' =
                      [layerCanvases EXCEPT ![activeLayerId].data =
                          Paint(cv.data, LinePixels(lastPos, <<x, y>>),
                                cv.gco, cv.strokeStyle)]
                /\ lastPos' = <<x, y>>
                /\ display' = composite(Width, Height, layers, layerCanvases')
                /\ UNCHANGED <<appVars, isDrawing, history, historyIndex,
                               beforeState, loads>>

\* a finishStroke that leaves the stroke in progress and its before-snapshot
\* pending (fault injected to show that C30 depends on the release ending the
\* stroke)
finishStroke_staysDrawing ==
    /\ isDrawing
    /\ LET c == commitAction(history, historyIndex, beforeState, activeLayerId)
       IN  /\ layerCanvases' =
                 IF ActiveCtx
                 THEN [layerCanvases EXCEPT ![activeLayerId].gco = "source-over"]
                 ELSE layerCanvases
           /\ history' = c.history
           /\ historyIndex' = c.historyIndex
           /\ display' = composite(Width, Height, layers, layerCanvases')
    /\ UNCHANGED <<appVars, loads, isDrawing, lastPos, beforeState>>

\* finishStroke (part_002 lines 360-372), from handlePointerUp or handleGlobalUp
finishStroke ==
    /\ isDrawing
    /\ LET c == commitAction(history, historyIndex, beforeState, activeLayerId)
       IN  /\ isDrawing' = FALSE
           /\ lastPos' = <<>>
           /\ layerCanvases' =
                 IF ActiveCtx
                 THEN [layerCanvases EXCEPT ![activeLayerId].gco = "source-over"]
                 ELSE layerCanvases
           /\ history' = c.history
           /\ historyIndex' = c.historyIndex
           /\ beforeState' = <<>>
           /\ display' = composite(Width, Height, layers, layerCanvases')
    /\ UNCHANGED <<appVars, loads>>

\* handlePointerUp (part_002 lines 374-376), the onPointerUp of the display
\* canvas
handlePointerUp ==
    IF isDrawing THEN finishStroke ELSE UNCHANGED coreVars

\* handleGlobalUp (part_002 lines 379-385), the pointerup listener of the
\* window
handleGlobalUp ==
    IF isDrawing THEN finishStroke ELSE UNCHANGED coreVars

\* handleUndo -> undo (part_002 lines 390-402)
Undo ==
    /\ Mounted
    /\ LET r == undo(history, historyIndex, layerCanvases)
       IN  /\ history' = r.history
           /\ historyIndex' = r.historyIndex
           /\ layerCanvases' = r.canvases
           /\ display' = IF r.swapped THEN composite(Width, Height,
                                                     layers, r.canvases)
                                      ELSE display
    /\ UNCHANGED <<appVars, isDrawing, lastPos, beforeState, loads>>

\* handleRedo -> redo (part_002 lines 403-415)
Redo ==
    /\ Mounted
    /\ LET r == redo(history, historyIndex, layerCanvases)
       IN  /\ history' = r.history
           /\ historyIndex' = r.historyIndex
           /\ layerCanvases' = r.canvases
           /\ display' = IF r.swapped THEN composite(Width, Height,
                                                     layers, r.canvases)
                                      ELSE display
    /\ UNCHANGED <<appVars, isDrawing, lastPos, beforeState, loads>>

\* handleClear -> clear (part_002 lines 416-424)
Clear ==
    /\ Mounted
    /\ IF ~ActiveCtx
       THEN UNCHANGED coreVars
       ELSE LET data == layerCanvases[activeLayerId].data
                c == commitAction(history, historyIndex, <<data>>,
                                  activeLayerId)
            IN  /\ layerCanvases' =
                      [layerCanvases EXCEPT ![activeLayerId].data = BlankData]
                /\ history' = c.history
                /\ historyIndex' = c.historyIndex
                /\ beforeState' = <<>>
                /\ display' = composite(Width, Height, layers, layerCanvases')
                /\ UNCHANGED <<appVars, isDrawing, lastPos, loads>>


(***************************************************************************)
(* App handlers.  A handler that changes the layer list is followed by the *)
(* re-render in which the layer sync effect reconciles the store and       *)
(* composites.                                                             *)
(***************************************************************************)
Rerender(newLayers) ==
    /\ layerCanvases' = SyncCanvases(newLayers, layerCanvases)
    /\ loads' = DetachDecodes(loads, newLayers)
    /\ display' = composite(Width, Height, newLayers, layerCanvases')

\* the refs of a Canvas that is not mounted, and of one just mounted
FreshCanvasRefs ==
    /\ isDrawing' = FALSE
    /\ lastPos' = <<>>
    /\ history' = <<>>
    /\ historyIndex' = -1
    /\ beforeState' = <<>>
    /\ loads' = <<>>

setTool(t) ==
    /\ Mounted
    /\ tool' = t
    /\ UNCHANGED <<canvasSize, color, brushSize, currentFilePath, layers,
                   activeLayerId, layerIdCounter, timers, canvasVars>>

setColor(c) ==
    /\ Mounted
    /\ color' = c
    /\ UNCHANGED <<canvasSize, tool, brushSize, currentFilePath, layers,
                   activeLayerId, layerIdCounter, timers, canvasVars>>

\* handleCanvasSizeConfirm (App.tsx lines 102-104): the Canvas mounts
handleCanvasSizeConfirm ==
    /\ ~Mounted
    /\ canvasSize' = "size"
    /\ layerCanvases' = SyncCanvases(layers, NoCanvases)
    /\ display' = composite(Width, Height, layers, layerCanvases')
    /\ FreshCanvasRefs
    /\ UNCHANGED <<tool, color, brushSize, currentFilePath, layers,
                   activeLayerId, layerIdCounter, timers>>

\* handleNew (App.tsx lines 92-100): the Canvas unmounts with its refs
handleNew ==
    /\ layerIdCounter' = layerIdCounter + 1
    /\ layers' = <<DefaultLayer(layerIdCounter')>>
    /\ activeLayerId' = layerIdCounter'
    /\ canvasSize' = Null
    /\ currentFilePath' = Null
    /\ layerCanvases' = NoCanvases
    /\ display' = WhiteDisplay
    /\ FreshCanvasRefs
    /\ UNCHANGED <<tool, color, brushSize, timers>>

\* an add-layer that puts the new layer at the end of the list (fault
\* injected to show that C21 depends on the position of the new layer)
handleAddLayer_appends ==
    /\ Mounted
    /\ layerIdCounter' = layerIdCounter + 1
    /\ layers' = layers \o << [id |-> layerIdCounter', name |-> Len(layers) + 1,
                                opacity |-> 100, visible |-> TRUE] >>
    /\ activeLayerId' = layerIdCounter'
    /\ Rerender(layers')
    /\ UNCHANGED <<canvasSize, tool, color, brushSize, currentFilePath, timers,
                   isDrawing, lastPos, history, historyIndex, beforeState>>

\* handleAddLayer (App.tsx lines 107-112)
handleAddLayer ==
    /\ Mounted
    /\ layerIdCounter' = layerIdCounter + 1
    /\ layers' = << [id |-> layerIdCounter', name |-> Len(layers) + 1,
                     opacity |-> 100, visible |-> TRUE] >> \o layers
    /\ activeLayerId' = layerIdCounter'
    /\ Rerender(layers')
    /\ UNCHANGED <<canvasSize, tool, color, brushSize, currentFilePath, timers,
                   isDrawing, lastPos, history, historyIndex, beforeState>>

\* prev.filter((l) => l.id !== id)
RECURSIVE FilterOut(_, _)
FilterOut(ls, id) ==
    IF ls = <<>> THEN <<>>
    ELSE IF Head(ls).id = id THEN FilterOut(Tail(ls), id)
    ELSE <<Head(ls)>> \o FilterOut(Tail(ls), id)

\* handleDeleteLayer (App.tsx lines 114-125)
handleDeleteLayer(id) ==
    /\ Mounted
    /\ IF Len(layers) <= 1
       THEN UNCHANGED coreVars
       ELSE LET p == purgeLayerHistory(history, historyIndex, id)
                remaining == FilterOut(layers, id)
            IN  /\ history' = p.history
                /\ historyIndex' = p.historyIndex
                /\ layers' = remaining
                /\ activeLayerId' =
                      IF activeLayerId = id
                      THEN IF remaining = <<>> THEN NoLayer
                                               ELSE remaining[1].id
                      ELSE activeLayerId
                /\ Rerender(layers')
                /\ UNCHANGED <<canvasSize, tool, color, brushSize,
                               currentFilePath, layerIdCounter, timers,
                               isDrawing, lastPos, beforeState>>

\* a move that copies the neighbour over the layer instead of exchanging the
\* two
MovedLayers_copiesNeighbour(ls, id, direction) ==
    LET found == { i \in 1..Len(ls) : ls[i].id = id }
    IN  IF found = {} THEN ls
        ELSE LET idx == CHOOSE i \in found : \A j \in found : i <= j
                 targetIdx == idx + direction
             IN  IF targetIdx < 1 \/ targetIdx > Len(ls) THEN ls
                 ELSE [ls EXCEPT ![idx] = ls[targetIdx]]

\* handleMoveLayer (App.tsx lines 127-137); direction -1 is 'up', +1 'down'
MovedLayers(ls, id, direction) ==
    LET found == { i \in 1..Len(ls) : ls[i].id = id }
    IN  IF found = {} THEN ls
        ELSE LET idx == CHOOSE i \in found : \A j \in found : i <= j
                 targetIdx == idx + direction
             IN  IF targetIdx < 1 \/ targetIdx > Len(ls) THEN ls
                 ELSE [ls EXCEPT ![idx] = ls[targetIdx],
                                 ![targetIdx] = ls[idx]]

handleMoveLayer(id, direction) ==
    /\ Mounted
    /\ layers' = MovedLayers(layers, id, direction)
    /\ IF layers' = layers
       THEN UNCHANGED <<layerCanvases, display, loads>>
       ELSE Rerender(layers')
    /\ UNCHANGED <<canvasSize, tool, color, brushSize, currentFilePath,
                   activeLayerId, layerIdCounter, timers, isDrawing, lastPos,
                   history, historyIndex, beforeState>>

\* prev.map((l) => (l.id === id ? { ...l, visible: !l.visible } : l))
ToggledLayers(ls, id) ==
    [i \in 1..Len(ls) |->
        IF ls[i].id = id THEN [ls[i] EXCEPT !.visible = ~@] ELSE ls[i]]

\* handleToggleVisibility (App.tsx lines 139-143)
handleToggleVisibility(id) ==
    /\ Mounted
    /\ layers' = ToggledLayers(layers, id)
    /\ Rerender(layers')
    /\ UNCHANGED <<canvasSize, tool, color, brushSize, currentFilePath,
                   activeLayerId, layerIdCounter, timers, isDrawing, lastPos,
                   history, historyIndex, beforeState>>

\* the values the opacity slider of the layer panel is moved to, in percent
\* (LayerPanel.tsx line 89: parseInt(e.target.value) / 100)
Opacities == {50, 100}

\* prev.map((l) => (l.id === id ? { ...l, opacity } : l))
WithOpacity(ls, id, opacity) ==
    [i \in 1..Len(ls) |->
        IF ls[i].id = id THEN [ls[i] EXCEPT !.opacity = opacity] ELSE ls[i]]

\* handleSetOpacity (App.tsx lines 145-149)
handleSetOpacity(id, opacity) ==
    /\ Mounted
    /\ layers' = WithOpacity(layers, id, opacity)
    /\ Rerender(layers')
    /\ UNCHANGED <<canvasSize, tool, color, brushSize, currentFilePath,
                   activeLayerId, layerIdCounter, timers, isDrawing, lastPos,
                   history, historyIndex, beforeState>>

\* an export whose composite() draws the layers over what the display holds,
\* without the white fill (fault injected to show that C17 depends on the
\* display being rebuilt from the layers alone)
handleExport_drawsOver ==
    /\ Mounted
    /\ display' = CompositeFrom(Len(layers), layers, layerCanvases, display)
    /\ UNCHANGED <<appVars, layerCanvases, isDrawing, lastPos, history,
                   historyIndex, beforeState, loads>>

\* handleExport (App.tsx lines 202-206) -> toDataURL (part_002 lines 425-428):
\* composite(), then the display canvas is read
handleExport ==
    /\ Mounted
    /\ display' = composite(Width, Height, layers, layerCanvases)
    /\ UNCHANGED <<appVars, layerCanvases, isDrawing, lastPos, history,
                   historyIndex, beforeState, loads>>

\* handleSelectLayer (App.tsx lines 157-159)
handleSelectLayer(id) ==
    /\ Mounted
    /\ activeLayerId' = id
    /\ UNCHANGED <<canvasSize, tool, color, brushSize, currentFilePath, layers,
                   layerIdCounter, timers, canvasVars>>


(***************************************************************************)
(* Project documents handed to handleOpen.  Layer ids of documents are     *)
(* outside the range newLayerId hands out in this session.                 *)
(***************************************************************************)
ImgRed == [p \in PixelIdx |-> Opaque(Red)]
ImgDot == [p \in PixelIdx |-> IF p = 1 THEN Opaque(Black) ELSE Transparent]

DocLayerA == [id |-> 101, name |-> 1, opacity |-> 100, visible |-> TRUE]
DocLayerB == [id |-> 102, name |-> 2, opacity |-> 100, visible |-> TRUE]

\* a field the document lacks: hasX = FALSE (tool "", color <<>>,
\* activeLayerId NoLayer)
DocBase ==
    [parses |-> TRUE, version |-> 2, tool |-> "pen", color |-> <<>>,
     hasLayers |-> FALSE, layers |-> <<>>, activeLayerId |-> NoLayer,
     hasLayerImages |-> FALSE, layerImages |-> <<>>,
     hasImage |-> FALSE, imageData |-> BlankData]

\* text that JSON.parse rejects
DocUnparsable == [DocBase EXCEPT !.parses = FALSE, !.version = 0, !.tool = ""]
\* parsable, but no known version and none of tool, layers, images
DocBadVersion == [DocBase EXCEPT !.version = 0, !.tool = ""]
\* v1 with its embedded image
DocV1Image == [DocBase EXCEPT !.version = 1, !.hasImage = TRUE,
                              !.imageData = ImgRed]
\* v2 with two layers and an image for each
DocV2 ==
    [DocBase EXCEPT !.hasLayers = TRUE, !.layers = <<DocLayerB, DocLayerA>>,
                    !.activeLayerId = 102, !.hasLayerImages = TRUE,
                    !.layerImages = << [id |-> 101, dataUrl |-> ImgRed],
                                       [id |-> 102, dataUrl |-> ImgDot] >>]
\* v2 with one layer and no layerImages field
DocV2NoImages ==
    [DocBase EXCEPT !.hasLayers = TRUE, !.layers = <<DocLayerA>>,
                    !.activeLayerId = 101]
\* v2 with one layer and an empty layerImages mapping
DocV2EmptyImages == [DocV2NoImages EXCEPT !.hasLayerImages = TRUE]
\* v2 whose layers field is the empty list
DocV2NoLayers == [DocBase EXCEPT !.hasLayers = TRUE]

\* v2 with one layer, whose layerImages mapping names two ids that are not in
\* layers, before and after the entry of the layer
DocV2Stray ==
    [DocV2NoImages EXCEPT !.hasLayerImages = TRUE,
                          !.layerImages = << [id |-> 103, dataUrl |-> ImgDot],
                                             [id |-> 101, dataUrl |-> ImgRed],
                                             [id |-> 104, dataUrl |-> ImgDot] >>]
\* v2 with one layer, whose layerImages mapping has one entry, for an id that
\* is not in layers
DocV2StrayOnly ==
    [DocV2NoImages EXCEPT !.hasLayerImages = TRUE,
                          !.layerImages = << [id |-> 103, dataUrl |-> ImgDot] >>]

Docs == {DocUnparsable, DocBadVersion, DocV1Image, DocV2, DocV2NoImages,
         DocV2EmptyImages, DocV2NoLayers, DocV2Stray, DocV2StrayOnly}

\* canvas.toDataURL('image/png') followed by the decode of the image: the
\* PNG keeps the four channels of a pixel, and of a fully transparent pixel
\* only that it is transparent
toDataURL(data) ==
    [p \in DOMAIN data |-> IF data[p][4] = 0 THEN Transparent ELSE data[p]]

\* the entries of a store as a list, by ascending id; the order decides only
\* the order in which loadLayerImages starts the decodes
RECURSIVE StoreEntries(_, _)
StoreEntries(canvases, ids) ==
    IF ids = {}
    THEN <<>>
    ELSE LET id == CHOOSE i \in ids : \A j \in ids : i <= j
         IN  << [id |-> id, dataUrl |-> toDataURL(canvases[id].data)] >>
             \o StoreEntries(canvases, ids \ {id})

\* getLayerDataURLs (part_002 lines 447-453)
getLayerDataURLs == StoreEntries(layerCanvases, DOMAIN layerCanvases)

\* buildProjectData (App.tsx lines 162-182) and the JSON.parse of its text;
\* it yields no document while no Canvas is mounted
buildProjectData ==
    [DocBase EXCEPT !.tool = tool, !.color = color,
                    !.hasLayers = TRUE, !.layers = layers,
                    !.activeLayerId = activeLayerId,
                    !.hasLayerImages = TRUE,
                    !.layerImages = getLayerDataURLs]

\* project.version === 2 && project.layers (an empty array is truthy)
IsV2(doc) == doc.version = 2 /\ doc.hasLayers

\* handleOpen after the dialog returned the file's text (App.tsx lines 210-251)
handleOpen(doc) ==
    IF ~doc.parses
    THEN UNCHANGED coreVars
    ELSE /\ canvasSize' = "size"
         /\ tool' = IF doc.tool = "" THEN "pen" ELSE doc.tool
         /\ brushSize' = DefaultBrushSize
         /\ color' = IF doc.color = <<>> THEN Black ELSE doc.color
         /\ currentFilePath' = "file"
         /\ IF IsV2(doc)
            THEN /\ layers' = doc.layers
                 /\ activeLayerId' =
                       IF doc.activeLayerId # NoLayer THEN doc.activeLayerId
                       ELSE IF doc.layers # <<>> THEN doc.layers[1].id
                       ELSE NoLayer
                 /\ UNCHANGED layerIdCounter
            ELSE /\ layerIdCounter' = layerIdCounter + 1
                 /\ layers' = <<DefaultLayer(layerIdCounter')>>
                 /\ activeLayerId' = layerIdCounter'
         /\ timers' = Append(timers, doc)
         /\ IF Mounted
            THEN /\ Rerender(layers')
                 /\ UNCHANGED <<isDrawing, lastPos, history, historyIndex,
                                beforeState>>
            ELSE /\ layerCanvases' = SyncCanvases(layers', NoCanvases)
                 /\ display' = composite(Width, Height, layers', layerCanvases')
                 /\ FreshCanvasRefs

RemoveAt(seq, k) == SubSeq(seq, 1, k - 1) \o SubSeq(seq, k + 1, Len(seq))

\* a loop whose skip branch does not count the entry down (fault injected to
\* show that C13 depends on the countdown of skipped entries)
RECURSIVE LoadLoop_skipNotCounted(_, _, _, _, _)
LoadLoop_skipNotCounted(images, canvases, remaining, cleared, decodes) ==
    IF images = <<>>
    THEN [remaining |-> remaining, cleared |-> cleared, decodes |-> decodes]
    ELSE LET e == Head(images)
         IN  IF e.id \notin DOMAIN canvases
             THEN LoadLoop_skipNotCounted(Tail(images), canvases, remaining,
                                          cleared, decodes)
             ELSE LoadLoop_skipNotCounted(Tail(images), canvases, remaining,
                                          cleared,
                                          decodes \cup {[id |-> e.id,
                                                         live |-> TRUE,
                                                         img |-> e.dataUrl]})

\* the for loop of loadLayerImages (part_002 lines 463-488): an entry without a
\* canvas counts down at once, the others start a decode
RECURSIVE LoadLoop(_, _, _, _, _)
LoadLoop(images, canvases, remaining, cleared, decodes) ==
    IF images = <<>>
    THEN [remaining |-> remaining, cleared |-> cleared, decodes |-> decodes]
    ELSE LET e == Head(images)
         IN  IF e.id \notin DOMAIN canvases
             THEN LoadLoop(Tail(images), canvases, remaining - 1,
                           cleared \/ remaining - 1 = 0, decodes)
             ELSE LoadLoop(Tail(images), canvases, remaining, cleared,
                           decodes \cup {[id |-> e.id, live |-> TRUE,
                                          img |-> e.dataUrl]})

\* a counter that starts at one whatever the number of images (fault injected
\* to show that C9 depends on the count)
initialRemaining_one(images) == Min2(1, Len(images))

\* let remaining = images.size
initialRemaining(images) == Len(images)

\* loadLayerImages (part_002 lines 454-489)
loadLayerImages(images) ==
    LET r == IF initialRemaining(images) = 0
             THEN [remaining |-> 0, cleared |-> TRUE, decodes |-> {}]
             ELSE LoadLoop(images, layerCanvases, initialRemaining(images),
                           FALSE, {})
    IN  /\ IF r.cleared
           THEN /\ history' = <<>>
                /\ historyIndex' = -1
                /\ display' = composite(Width, Height, layers, layerCanvases)
           ELSE UNCHANGED <<history, historyIndex, display>>
        /\ loads' = IF r.decodes = {} THEN loads
                    ELSE Append(loads, [kind |-> "v2",
                                        remaining |-> r.remaining,
                                        layers |-> layers,
                                        decodes |-> r.decodes])
        /\ UNCHANGED <<layerCanvases, isDrawing, lastPos, beforeState>>

\* loadImage (part_002 lines 429-445): into the bottom layer
loadImage(dataUrl) ==
    IF layers = <<>> \/ layers[Len(layers)].id \notin DOMAIN layerCanvases
    THEN UNCHANGED canvasVars
    ELSE /\ loads' = Append(loads,
                        [kind |-> "v1", remaining |-> 1, layers |-> layers,
                         decodes |-> {[id |-> layers[Len(layers)].id,
                                       live |-> TRUE, img |-> dataUrl]}])
         /\ UNCHANGED <<layerCanvases, display, isDrawing, lastPos, history,
                        historyIndex, beforeState>>

\* the setTimeout callbacks of handleOpen (App.tsx lines 228-236, 242-246)
timerFires(k) ==
    /\ k \in 1..Len(timers)
    /\ timers' = RemoveAt(timers, k)
    /\ LET doc == timers[k]
       IN  IF ~Mounted
           THEN UNCHANGED canvasVars
           ELSE IF IsV2(doc)
           THEN IF doc.hasLayerImages THEN loadLayerImages(doc.layerImages)
                                      ELSE UNCHANGED canvasVars
           ELSE IF doc.hasImage THEN loadImage(doc.imageData)
                                ELSE UNCHANGED canvasVars
    /\ UNCHANGED <<canvasSize, tool, color, brushSize, currentFilePath, layers,
                   activeLayerId, layerIdCounter>>

\* an onload that counts down and clears the history without drawing the
\* decoded image (fault injected to show that C12 depends on the drawImage)
imageLoaded_noDraw(k, d) ==
    /\ k \in 1..Len(loads)
    /\ d \in loads[k].decodes
    /\ LET load == loads[k]
           remaining == load.remaining - 1
           left == load.decodes \ {d}
       IN  /\ layerCanvases' = layerCanvases
           /\ IF remaining = 0
              THEN /\ history' = <<>>
                   /\ historyIndex' = -1
                   /\ display' = composite(Width, Height,
                                           load.layers, layerCanvases)
              ELSE UNCHANGED <<history, historyIndex, display>>
           /\ loads' = IF left = {} THEN RemoveAt(loads, k)
                       ELSE [loads EXCEPT ![k] = [load EXCEPT
                                !.remaining = remaining, !.decodes = left]]
    /\ UNCHANGED <<appVars, isDrawing, lastPos, beforeState>>

\* img.onload of loadImage (lines 436-443) and of loadLayerImages (476-486):
\* clearRect, drawImage in the context's composition mode, count down, and at
\* zero clear the history and composite with the layers of the render that
\* created the handle.  loadImage has no counter: its one decode always clears.
imageLoaded(k, d) ==
    /\ k \in 1..Len(loads)
    /\ d \in loads[k].decodes
    /\ LET load == loads[k]
           remaining == load.remaining - 1
           left == load.decodes \ {d}
           drawn == IF d.live
                    THEN [layerCanvases EXCEPT ![d.id].data =
                             IF layerCanvases[d.id].gco = "destination-out"
                             THEN BlankData ELSE d.img]
                    ELSE layerCanvases
       IN  /\ layerCanvases' = drawn
           /\ IF remaining = 0
              THEN /\ history' = <<>>
                   /\ historyIndex' = -1
                   /\ display' = composite(Width, Height, load.layers, drawn)
              ELSE UNCHANGED <<history, historyIndex, display>>
           /\ loads' = IF left = {} THEN RemoveAt(loads, k)
                       ELSE [loads EXCEPT ![k] = [load EXCEPT
                                !.remaining = remaining, !.decodes = left]]
    /\ UNCHANGED <<appVars, isDrawing, lastPos, beforeState>>


(***************************************************************************)
(* The observer: what the run so far did, for the properties that speak    *)
(* about sequences of operations.  It is written beside the handlers and   *)
(* read by none of them.                                                   *)
(*   steps    handler invocations so far                                   *)
(*   deleted  a delete-layer has succeeded on the mounted canvas           *)
(*   streak   history entries committed since the last undo, layer         *)
(*            deletion, project load or new canvas (counted up to          *)
(*            maxHistory + 1)                                              *)
(*   done     the last handler completed a stroke, fill or clear that      *)
(*            recorded its history entry                                   *)
(*   trip     the strokes and fills completed in a row on layer            *)
(*            trip.layer: bases[j] is the layer's buffer before the j-th,  *)
(*            recs[j] whether it recorded a history entry, open the buffer *)
(*            before the stroke in progress                                *)
(*   load     the project load in progress with no other handler in        *)
(*            between: the document opened and how far its load got        *)
(*            ("opened", "decoding", "done"), "none" otherwise             *)
(*   exported the last handler was an export, which called composite()     *)
(*   mark     "undoAtStart" when the last handler was an undo that found    *)
(*            the history position below 0, "redoAtEnd" when it was a redo  *)
(*            that found the position at the last entry, "overRedo" when    *)
(*            it committed an entry while entries beyond the position       *)
(*            existed, "purgedBothSides" when it was a delete-layer that    *)
(*            removed entries at or before the position and entries after   *)
(*            it, "idleRelease" when it was a pointer release that found    *)
(*            no stroke in progress, "none" otherwise                       *)
(*   stroke   in the stroke specification, the stroke that the last         *)
(*            pointer-down started: the layer active then, the pixels of    *)
(*            every buffer then (store), the history entries added since    *)
(*            (commits), and whether a release has ended it                 *)
(*   seed     the seed <<x, y>> of the fill that the last handler ran, in   *)
(*            the region specification; <<>> otherwise                      *)
(***************************************************************************)
NoTrip == [layer |-> NoLayer, open |-> <<>>, bases |-> <<>>, recs |-> <<>>]

NoLoad == [phase |-> "none", doc |-> DocBase]

NoStroke == [layer |-> NoLayer, store |-> <<>>, commits |-> 0, ended |-> FALSE]

\* the region-growth loop of a fill in progress: its seed, the buffer the
\* fill started from, the loop's locals (stack, visited, data) and how many
\* times each pixel has been filled
NoLoop == [phase |-> "idle", seed |-> <<>>, base |-> <<>>,
           s |-> [stack |-> <<>>, visited |-> {}, data |-> <<>>],
           fills |-> <<>>]

\* the edge-expansion passes of a fill in progress: its seed, the buffer the
\* fill started from, the pixel data and the expanded mask so far, and for
\* each pass run the mask and the data it started from and the pixels it
\* blended
\* the round trip in progress: the document exported and the layer list,
\* active layer id and buffers at the export
NoRound == [phase |-> "editing", doc |-> DocBase, layers |-> <<>>,
            activeLayerId |-> NoLayer, buffers |-> <<>>]

\* where the snapshots came from: the layer whose buffer the pending
\* before-snapshot was read from (NoLayer when none is pending), and for each
\* history entry, in order, the layer whose buffer its snapshot was read from
NoCapture == [layer |-> NoLayer, origins |-> <<>>]

NoEdge == [phase |-> "idle", seed |-> <<>>, base |-> <<>>, data |-> <<>>,
           expanded |-> {}, passes |-> <<>>]

NoObs == [steps |-> 0, deleted |-> FALSE, streak |-> 0, done |-> FALSE,
          trip |-> NoTrip, load |-> NoLoad, exported |-> FALSE,
          mark |-> "none", seed |-> <<>>, stroke |-> NoStroke,
          loop |-> NoLoop, edge |-> NoEdge,
          round |-> NoRound, capture |-> NoCapture]

Counted(committed) ==
    IF committed THEN Min2(obs.streak + 1, maxHistory + 1) ELSE obs.streak

\* the row so far, if the operation about to run on the active layer extends it
TripOn ==
    IF obs.trip.layer = activeLayerId /\ obs.trip.open = <<>>
    THEN obs.trip
    ELSE [NoTrip EXCEPT !.layer = activeLayerId]

\* a completed fill
TripFill(committed) ==
    IF ~ActiveCtx \/ isDrawing THEN NoTrip
    ELSE [TripOn EXCEPT
            !.bases = Append(@, layerCanvases[activeLayerId].data),
            !.recs = Append(@, committed)]

\* the pointer-down of a stroke
TripDown ==
    IF ~ActiveCtx \/ isDrawing THEN NoTrip
    ELSE [TripOn EXCEPT !.open = <<layerCanvases[activeLayerId].data>>]

\* the end of a stroke
TripUp(committed) ==
    IF obs.trip.open # <<>> /\ obs.trip.layer = activeLayerId
    THEN [obs.trip EXCEPT !.open = <<>>,
                          !.bases = Append(@, obs.trip.open[1]),
                          !.recs = Append(@, committed)]
    ELSE NoTrip

\* the timer callback of the document just opened has run
LoadTimer(k) ==
    IF obs.load.phase = "opened" /\ k = Len(timers)
    THEN [obs.load EXCEPT !.phase = IF Len(loads') > Len(loads)
                                    THEN "decoding" ELSE "done"]
    ELSE NoLoad

\* a decode of the load just started has completed
LoadDecoded(k, d) ==
    IF obs.load.phase = "decoding" /\ k = Len(loads)
    THEN [obs.load EXCEPT !.phase = IF loads[k].decodes = {d}
                                    THEN "done" ELSE "decoding"]
    ELSE NoLoad

ObserveMark(deleted, streak, done, trip, load, mark) ==
    obs' = [steps |-> obs.steps + 1, deleted |-> deleted, streak |-> streak,
            done |-> done, trip |-> trip, load |-> load, exported |-> FALSE,
            mark |-> mark, seed |-> <<>>, stroke |-> NoStroke,
          loop |-> NoLoop, edge |-> NoEdge,
          round |-> NoRound, capture |-> NoCapture]

ObserveLoad(deleted, streak, done, trip, load) ==
    ObserveMark(deleted, streak, done, trip, load, "none")

Observe(deleted, streak, done, trip) ==
    ObserveLoad(deleted, streak, done, trip, NoLoad)

\* the observer after a stroke, fill or clear that committed an entry or not
ObserveCommit(committed, trip) ==
    ObserveMark(obs.deleted, Counted(committed), committed, trip, NoLoad,
                IF committed /\ historyIndex < Len(history) - 1
                THEN "overRedo" ELSE "none")

(***************************************************************************)
(* The handlers with the observer beside them.                             *)
(***************************************************************************)
SizeConfirmStep ==
    handleCanvasSizeConfirm /\ Observe(FALSE, 0, FALSE, NoTrip)

NewStep ==
    handleNew /\ Observe(FALSE, 0, FALSE, NoTrip)

AddLayerStep ==
    handleAddLayer /\ Observe(obs.deleted, obs.streak, FALSE, NoTrip)

DeleteLayerStep(id) ==
    /\ handleDeleteLayer(id)
    /\ IF Len(layers) <= 1
       THEN Observe(obs.deleted, obs.streak, FALSE, NoTrip)
       ELSE ObserveMark(TRUE, 0, FALSE, NoTrip, NoLoad,
                        IF /\ \E i \in 1..Len(history) :
                                 history[i].layerId = id /\ i - 1 <= historyIndex
                           /\ \E i \in 1..Len(history) :
                                 history[i].layerId = id /\ i - 1 > historyIndex
                        THEN "purgedBothSides" ELSE "none")

MoveLayerStep(id, dir) ==
    handleMoveLayer(id, dir) /\ Observe(obs.deleted, obs.streak, FALSE, NoTrip)

SelectLayerStep(id) ==
    handleSelectLayer(id) /\ Observe(obs.deleted, obs.streak, FALSE, NoTrip)

ToggleVisibilityStep(id) ==
    /\ handleToggleVisibility(id)
    /\ Observe(obs.deleted, obs.streak, FALSE, NoTrip)

SetOpacityStep(id, opacity) ==
    /\ handleSetOpacity(id, opacity)
    /\ Observe(obs.deleted, obs.streak, FALSE, NoTrip)

ExportStep ==
    /\ handleExport
    /\ obs' = [steps |-> obs.steps + 1, deleted |-> obs.deleted,
               streak |-> obs.streak, done |-> FALSE, trip |-> NoTrip,
               load |-> NoLoad, exported |-> TRUE, mark |-> "none",
               seed |-> <<>>, stroke |-> NoStroke,
          loop |-> NoLoop, edge |-> NoEdge,
          round |-> NoRound, capture |-> NoCapture]

SetToolStep(t) ==
    setTool(t) /\ Observe(obs.deleted, obs.streak, FALSE, obs.trip)

SetColorStep(c) ==
    setColor(c) /\ Observe(obs.deleted, obs.streak, FALSE, obs.trip)

PointerDownStep(x, y) ==
    /\ handlePointerDown(x, y)
    /\ IF tool = "fill"
       THEN LET committed ==
                   ActiveCtx /\ ~SameAsFill(
                       layerCanvases[activeLayerId].data[Idx(x, y)], color)
            IN  ObserveCommit(committed, TripFill(committed))
       ELSE Observe(obs.deleted, obs.streak, FALSE, TripDown)

PointerMoveStep(x, y) ==
    handlePointerMove(x, y) /\ Observe(obs.deleted, obs.streak, FALSE, obs.trip)

PointerUpStep ==
    /\ finishStroke
    /\ ObserveCommit(beforeState # <<>>, TripUp(beforeState # <<>>))

UndoStep ==
    /\ Undo
    /\ ObserveMark(obs.deleted, 0, FALSE, NoTrip, NoLoad,
                   IF historyIndex < 0 THEN "undoAtStart" ELSE "none")

RedoStep ==
    /\ Redo
    /\ ObserveMark(obs.deleted, obs.streak, FALSE, NoTrip, NoLoad,
                   IF historyIndex >= Len(history) - 1 THEN "redoAtEnd"
                                                       ELSE "none")

ClearStep ==
    Clear /\ ObserveCommit(ActiveCtx, NoTrip)

OpenStep(doc) ==
    /\ handleOpen(doc)
    /\ IF doc.parses
       THEN ObserveLoad(obs.deleted /\ Mounted, 0, FALSE, NoTrip,
                        [phase |-> "opened", doc |-> doc])
       ELSE Observe(obs.deleted, obs.streak, FALSE, NoTrip)

TimerStep(k) ==
    timerFires(k) /\ ObserveLoad(obs.deleted, 0, FALSE, NoTrip, LoadTimer(k))

ImageLoadedStep(k, d) ==
    /\ imageLoaded(k, d)
    /\ ObserveLoad(obs.deleted, 0, FALSE, NoTrip, LoadDecoded(k, d))

(***************************************************************************)
(* The specification: every handler, in any interleaving, for MaxSteps     *)
(* handler invocations.                                                    *)
(***************************************************************************)
Init ==
    /\ canvasSize = Null
    /\ tool = "pen"
    /\ color = Black
    /\ brushSize = DefaultBrushSize
    /\ currentFilePath = Null
    /\ layers = <<DefaultLayer(1)>>
    /\ activeLayerId = 1
    /\ layerIdCounter = 1
    /\ timers = <<>>
    /\ layerCanvases = NoCanvases
    /\ display = WhiteDisplay
    /\ isDrawing = FALSE
    /\ lastPos = <<>>
    /\ history = <<>>
    /\ historyIndex = -1
    /\ beforeState = <<>>
    /\ loads = <<>>
    /\ obs = NoObs

\* guards that keep the explored state space finite
CanCreate == layerIdCounter < MaxLayerIds
CanOpen == Len(timers) + Len(loads) < MaxPending

\* every handler, while the number of invocations so far is in from..(to - 1)
Handlers(from, to) ==
    LET InWindow == obs.steps >= from /\ obs.steps < to
    IN  \/ InWindow /\ SizeConfirmStep
        \/ InWindow /\ CanCreate /\ NewStep
        \/ InWindow /\ CanCreate /\ AddLayerStep
        \/ InWindow /\ \E id \in LayerIds(layers) : DeleteLayerStep(id)
        \/ InWindow /\ \E id \in LayerIds(layers), dir \in {-1, 1} :
                            MoveLayerStep(id, dir)
        \/ InWindow /\ \E id \in LayerIds(layers) : SelectLayerStep(id)
        \/ InWindow /\ \E id \in LayerIds(layers) : ToggleVisibilityStep(id)
        \/ InWindow /\ \E id \in LayerIds(layers), opacity \in Opacities :
                            SetOpacityStep(id, opacity)
        \/ InWindow /\ ExportStep
        \/ InWindow /\ \E t \in Tools : SetToolStep(t)
        \/ InWindow /\ \E c \in Colors : SetColorStep(c)
        \/ InWindow /\ \E x \in Xs, y \in Ys : PointerDownStep(x, y)
        \/ InWindow /\ \E x \in Xs, y \in Ys : PointerMoveStep(x, y)
        \/ InWindow /\ PointerUpStep
        \/ InWindow /\ UndoStep
        \/ InWindow /\ RedoStep
        \/ InWindow /\ ClearStep
        \/ InWindow /\ \E doc \in Docs :
                          CanOpen /\ (IsV2(doc) \/ CanCreate) /\ OpenStep(doc)
        \/ InWindow /\ \E k \in 1..Len(timers) : TimerStep(k)
        \/ InWindow /\ \E k \in 1..Len(loads) : \E d \in loads[k].decodes :
                            ImageLoadedStep(k, d)

Next == Handlers(0, MaxSteps)

Spec == Init /\ [][Next]_vars

(***************************************************************************)
(* The long-history specification: pen strokes at one pixel until the      *)
(* history is one entry short of maxHistory, then every handler in any     *)
(* interleaving for MaxLongSteps handler invocations.                      *)
(***************************************************************************)
RampSteps == 2 * (maxHistory - 1) + 1

NextLong ==
    \/ obs.steps < RampSteps /\ SizeConfirmStep
    \/ obs.steps < RampSteps /\ ~isDrawing /\ PointerDownStep(0, 0)
    \/ obs.steps < RampSteps /\ PointerUpStep
    \/ Handlers(RampSteps, RampSteps + MaxLongSteps)

SpecLong == Init /\ [][NextLong]_vars

(***************************************************************************)
(* The flood-fill specification: floodFill called with any seed, inside    *)
(* the buffer or one pixel outside it, on a one-layer canvas as a project  *)
(* load leaves it (any buffer of the palette, empty history), with colour  *)
(* changes and undo in between, for MaxFillSteps calls.                    *)
(***************************************************************************)
SeedXs == -1..Width
SeedYs == -1..Height

Palette == {Transparent, Opaque(Black), Opaque(Red)}

FillStep(x, y) ==
    /\ Mounted
    /\ floodFill(Width, Height, x, y)
    /\ LET committed ==
               ActiveCtx /\ ~SameAsFill(
                   SeedTarget(Width, Height,
                              layerCanvases[activeLayerId].data, x, y),
                   color)
       IN  Observe(obs.deleted, Counted(committed), committed, NoTrip)

InitFill ==
    /\ canvasSize = "size"
    /\ tool = "fill"
    /\ color \in Colors
    /\ brushSize = DefaultBrushSize
    /\ currentFilePath = "file"
    /\ layers = <<DefaultLayer(1)>>
    /\ activeLayerId = 1
    /\ layerIdCounter = 1
    /\ timers = <<>>
    /\ \E data \in [PixelIdx -> Palette] :
          layerCanvases = [id \in {1} |-> [NewCanvas EXCEPT !.data = data]]
    /\ display = composite(Width, Height, layers, layerCanvases)
    /\ isDrawing = FALSE
    /\ lastPos = <<>>
    /\ history = <<>>
    /\ historyIndex = -1
    /\ beforeState = <<>>
    /\ loads = <<>>
    /\ obs = NoObs

NextFill ==
    \/ obs.steps < MaxFillSteps /\ \E x \in SeedXs, y \in SeedYs : FillStep(x, y)
    \/ obs.steps < MaxFillSteps /\ \E c \in Colors : SetColorStep(c)
    \/ obs.steps < MaxFillSteps /\ UndoStep

SpecFill == InitFill /\ [][NextFill]_vars

(***************************************************************************)
(* The scenario specification: a canvas of 10 by 10 pixels with one layer  *)
(* that is all white, or all white but for one opaque black column, as a   *)
(* project load leaves it; fills at the centre and at two corners, with    *)
(* colour changes in between, for MaxSceneSteps calls.                     *)
(***************************************************************************)
ScenePixels == 1..(10 * 10)

AllWhite == [i \in ScenePixels |-> White]

\* all white, with column c opaque black from top to bottom
WhiteWithColumn(c) ==
    [i \in ScenePixels |-> IF (i - 1) % 10 = c THEN Opaque(Black) ELSE White]

SceneBuffers == {AllWhite} \cup { WhiteWithColumn(c) : c \in 0..9 }

SceneSeeds == { <<5, 5>>, <<0, 0>>, <<9, 9>> }

SceneFillStep(x, y) ==
    /\ Mounted
    /\ floodFill(10, 10, x, y)
    /\ LET committed ==
               ActiveCtx /\ ~SameAsFill(
                   SeedTarget(10, 10, layerCanvases[activeLayerId].data, x, y),
                   color)
       IN  Observe(obs.deleted, Counted(committed), committed,
                   TripFill(committed))

InitScene ==
    /\ canvasSize = "size"
    /\ tool = "fill"
    /\ color \in Colors
    /\ brushSize = DefaultBrushSize
    /\ currentFilePath = "file"
    /\ layers = <<DefaultLayer(1)>>
    /\ activeLayerId = 1
    /\ layerIdCounter = 1
    /\ timers = <<>>
    /\ \E data \in SceneBuffers :
          layerCanvases = [id \in {1} |-> [NewCanvas EXCEPT !.data = data]]
    /\ display = composite(10, 10, layers, layerCanvases)
    /\ isDrawing = FALSE
    /\ lastPos = <<>>
    /\ history = <<>>
    /\ historyIndex = -1
    /\ beforeState = <<>>
    /\ loads = <<>>
    /\ obs = NoObs

NextScene ==
    \/ obs.steps < MaxSceneSteps /\ \E p \in SceneSeeds :
                                        SceneFillStep(p[1], p[2])
    \/ obs.steps < MaxSceneSteps /\ \E c \in Colors : SetColorStep(c)

SpecScene == InitScene /\ [][NextScene]_vars

(***************************************************************************)
(* The region specification: one floodFill with the colour red, at any     *)
(* seed inside the buffer, on a one-layer canvas of RegionWidth by         *)
(* RegionHeight pixels as a project load leaves it, each pixel opaque      *)
(* white, the grey 24 below white in every channel, or that grey with an   *)
(* alpha 24 lower still: white and the faint grey are outside each other's *)
(* tolerance by alpha alone, the grey is within the tolerance of both.     *)
(***************************************************************************)
RegionPixels == 1..(RegionWidth * RegionHeight)

Grey24 == <<231, 231, 231, 231>>
Grey24Faint == <<231, 231, 231, 207>>
RegionPalette == {White, Grey24, Grey24Faint}

RegionFillStep(x, y) ==
    /\ Mounted
    /\ obs.steps = 0
    /\ floodFill(RegionWidth, RegionHeight, x, y)
    /\ LET committed ==
               ActiveCtx /\ ~SameAsFill(
                   SeedTarget(RegionWidth, RegionHeight,
                              layerCanvases[activeLayerId].data, x, y),
                   color)
       IN  obs' = [NoObs EXCEPT !.steps = 1,
                                !.streak = Counted(committed),
                                !.done = committed,
                                !.trip = TripFill(committed),
                                !.seed = <<x, y>>]

InitRegion ==
    /\ canvasSize = "size"
    /\ tool = "fill"
    /\ color = Red
    /\ brushSize = DefaultBrushSize
    /\ currentFilePath = "file"
    /\ layers = <<DefaultLayer(1)>>
    /\ activeLayerId = 1
    /\ layerIdCounter = 1
    /\ timers = <<>>
    /\ \E data \in [RegionPixels -> RegionPalette] :
          layerCanvases = [id \in {1} |-> [NewCanvas EXCEPT !.data = data]]
    /\ display = composite(RegionWidth, RegionHeight, layers, layerCanvases)
    /\ isDrawing = FALSE
    /\ lastPos = <<>>
    /\ history = <<>>
    /\ historyIndex = -1
    /\ beforeState = <<>>
    /\ loads = <<>>
    /\ obs = NoObs

NextRegion ==
    \E x \in 0..(RegionWidth - 1), y \in 0..(RegionHeight - 1) :
        RegionFillStep(x, y)

SpecRegion == InitRegion /\ [][NextRegion]_vars

(***************************************************************************)
(* The stroke specification: a canvas with the layers L2 over L1, both     *)
(* holding the red image, L2 active, empty history, the pen or the eraser  *)
(* chosen; pointer-down while no stroke is in progress, draw-moves, the    *)
(* release on the canvas and the release on the window, select-layer,      *)
(* add-layer and delete-layer in any interleaving, for MaxStrokeSteps      *)
(* handler invocations.                                                    *)
(***************************************************************************)
StrokeObserve(stroke, mark) ==
    obs' = [NoObs EXCEPT !.steps = obs.steps + 1, !.stroke = stroke,
                         !.mark = mark]

\* the stroke with the history entries this step added
Committing ==
    [obs.stroke EXCEPT
        !.commits = @ + Max2(0, Len(history') - Len(history))]

StrokeDownStep(x, y) ==
    /\ ~isDrawing
    /\ handlePointerDown(x, y)
    /\ StrokeObserve([layer |-> activeLayerId,
                      store |-> [id \in DOMAIN layerCanvases |->
                                    layerCanvases[id].data],
                      commits |-> 0, ended |-> FALSE], "none")

StrokeMoveStep(x, y) ==
    handlePointerMove(x, y) /\ StrokeObserve(Committing, "none")

StrokeUpStep ==
    /\ handlePointerUp
    /\ StrokeObserve([Committing EXCEPT !.ended = @ \/ isDrawing],
                     IF isDrawing THEN "none" ELSE "idleRelease")

StrokeGlobalUpStep ==
    /\ handleGlobalUp
    /\ StrokeObserve([Committing EXCEPT !.ended = @ \/ isDrawing],
                     IF isDrawing THEN "none" ELSE "idleRelease")

StrokeSelectStep(id) ==
    handleSelectLayer(id) /\ StrokeObserve(Committing, "none")

StrokeAddStep ==
    handleAddLayer /\ StrokeObserve(Committing, "none")

StrokeDeleteStep(id) ==
    handleDeleteLayer(id) /\ StrokeObserve(Committing, "none")

InitStroke ==
    /\ canvasSize = "size"
    /\ tool \in {"pen", "eraser"}
    /\ color = Black
    /\ brushSize = DefaultBrushSize
    /\ currentFilePath = "file"
    /\ layers = << [DefaultLayer(2) EXCEPT !.name = 2], DefaultLayer(1) >>
    /\ activeLayerId = 2
    /\ layerIdCounter = 2
    /\ timers = <<>>
    /\ layerCanvases = [id \in {1, 2} |-> [NewCanvas EXCEPT !.data = ImgRed]]
    /\ display = composite(Width, Height, layers, layerCanvases)
    /\ isDrawing = FALSE
    /\ lastPos = <<>>
    /\ history = <<>>
    /\ historyIndex = -1
    /\ beforeState = <<>>
    /\ loads = <<>>
    /\ obs = NoObs

NextStroke ==
    \/ obs.steps < MaxStrokeSteps /\ \E x \in Xs, y \in Ys : StrokeDownStep(x, y)
    \/ obs.steps < MaxStrokeSteps /\ \E x \in Xs, y \in Ys : StrokeMoveStep(x, y)
    \/ obs.steps < MaxStrokeSteps /\ StrokeUpStep
    \/ obs.steps < MaxStrokeSteps /\ StrokeGlobalUpStep
    \/ obs.steps < MaxStrokeSteps /\ \E id \in LayerIds(layers) :
                                         StrokeSelectStep(id)
    \/ obs.steps < MaxStrokeSteps /\ CanCreate /\ StrokeAddStep
    \/ obs.steps < MaxStrokeSteps /\ \E id \in LayerIds(layers) :
                                         StrokeDeleteStep(id)

SpecStroke == InitStroke /\ [][NextStroke]_vars

(***************************************************************************)
(* The purge specification: a canvas with the layers L2 over L1 and a      *)
(* history of up to MaxPurgeLen entries of the two layers at any position, *)
(* as clears, strokes and undos on the two layers leave it; then           *)
(* delete-layer, undo and redo for MaxPurgeSteps handler invocations.      *)
(***************************************************************************)
PurgeEntries ==
    [layerId : {1, 2}, imageData : {BlankData, ImgDot}]

PurgeHistories ==
    UNION { [1..n -> PurgeEntries] : n \in 0..MaxPurgeLen }

InitPurge ==
    /\ canvasSize = "size"
    /\ tool = "pen"
    /\ color = Black
    /\ brushSize = DefaultBrushSize
    /\ currentFilePath = Null
    /\ layers = << [DefaultLayer(2) EXCEPT !.name = 2], DefaultLayer(1) >>
    /\ activeLayerId = 2
    /\ layerIdCounter = 2
    /\ timers = <<>>
    /\ layerCanvases = [id \in {1, 2} |-> NewCanvas]
    /\ display = composite(Width, Height, layers, layerCanvases)
    /\ isDrawing = FALSE
    /\ lastPos = <<>>
    /\ history \in PurgeHistories
    /\ historyIndex \in -1..(Len(history) - 1)
    /\ beforeState = <<>>
    /\ loads = <<>>
    /\ obs = NoObs

NextPurge ==
    \/ obs.steps < MaxPurgeSteps /\ \E id \in LayerIds(layers) :
                                        DeleteLayerStep(id)
    \/ obs.steps < MaxPurgeSteps /\ UndoStep
    \/ obs.steps < MaxPurgeSteps /\ RedoStep

SpecPurge == InitPurge /\ [][NextPurge]_vars

(***************************************************************************)
(* The loop specification: the region-growth loop of one floodFill, one    *)
(* iteration at a time.  The canvas has one layer of RegionWidth by        *)
(* RegionHeight pixels, each opaque white or an opaque near-black that is  *)
(* within the tolerance of the fill colour black without being equal to    *)
(* it, so that a filled pixel still matches a near-black target and only   *)
(* the visited mask keeps it from being filled again.  LoopBeginStep is    *)
(* the part of floodFill before the loop (lines 149-194), LoopPopStep one  *)
(* iteration (lines 196-212), LoopEndStep the rest of the handler once the *)
(* stack is empty (lines 215-255).                                         *)
(***************************************************************************)
NearBlack == <<10, 10, 10, 255>>
LoopPalette == {White, NearBlack}

LoopBeginStep(x, y) ==
    /\ Mounted
    /\ obs.loop.phase = "idle"
    /\ ActiveCtx
    /\ LET data == layerCanvases[activeLayerId].data
       IN  /\ ~SameAsFill(SeedTarget(RegionWidth, RegionHeight, data, x, y),
                          color)
           /\ obs' = [obs EXCEPT !.loop =
                        [phase |-> "filling", seed |-> <<x, y>>,
                         base |-> data,
                         s |-> [stack |-> << <<x, y>> >>, visited |-> {},
                                data |-> data],
                         fills |-> [p \in RegionPixels |-> 0]]]
    /\ UNCHANGED coreVars

LoopPopStep ==
    /\ obs.loop.phase = "filling"
    /\ obs.loop.s.stack # <<>>
    /\ LET l == obs.loop
           top == l.s.stack[Len(l.s.stack)]
           next == Pop(RegionWidth, RegionHeight, l.s,
                       SeedTarget(RegionWidth, RegionHeight, l.base,
                                  l.seed[1], l.seed[2]),
                       color)
           \* the iteration wrote the pixel iff it went on to push the
           \* four neighbours
           filled == Len(next.stack) > Len(l.s.stack)
       IN  obs' = [obs EXCEPT !.loop =
                     [l EXCEPT !.s = next,
                               !.fills = [p \in RegionPixels |->
                                   IF filled /\ p = top[2] * RegionWidth
                                                      + top[1] + 1
                                   THEN Min2(l.fills[p] + 1, 2)
                                   ELSE l.fills[p]]]]
    /\ UNCHANGED coreVars

LoopEndStep ==
    /\ obs.loop.phase = "filling"
    /\ obs.loop.s.stack = <<>>
    /\ floodFill(RegionWidth, RegionHeight, obs.loop.seed[1], obs.loop.seed[2])
    /\ obs' = [obs EXCEPT !.loop.phase = "done"]

InitLoop ==
    /\ canvasSize = "size"
    /\ tool = "fill"
    /\ color = Black
    /\ brushSize = DefaultBrushSize
    /\ currentFilePath = "file"
    /\ layers = <<DefaultLayer(1)>>
    /\ activeLayerId = 1
    /\ layerIdCounter = 1
    /\ timers = <<>>
    /\ \E data \in [RegionPixels -> LoopPalette] :
          layerCanvases = [id \in {1} |-> [NewCanvas EXCEPT !.data = data]]
    /\ display = composite(RegionWidth, RegionHeight, layers, layerCanvases)
    /\ isDrawing = FALSE
    /\ lastPos = <<>>
    /\ history = <<>>
    /\ historyIndex = -1
    /\ beforeState = <<>>
    /\ loads = <<>>
    /\ obs = NoObs

NextLoop ==
    \/ \E x \in 0..(RegionWidth - 1), y \in 0..(RegionHeight - 1) :
          LoopBeginStep(x, y)
    \/ LoopPopStep
    \/ LoopEndStep

SpecLoop == InitLoop /\ [][NextLoop]_vars

\* floodFill is synchronous: once the loop has begun, its next iteration
\* runs without waiting for anything
SpecLoopFair == SpecLoop /\ WF_vars(LoopPopStep)

(***************************************************************************)
(* The edge specification: the three edge-expansion passes of one          *)
(* floodFill with the colour red, one pass at a time, on the active bottom *)
(* layer of a canvas of one row of EdgeWidth pixels, each opaque white,    *)
(* opaque mid grey (outside the tolerance of white, blended by a pass next *)
(* to a white region) or opaque black (skipped by a pass next to a white   *)
(* region, bgFraction being 0); the layer above it is mid grey throughout. *)
(* EdgeBeginStep is floodFill up to the end of the stack loop (lines       *)
(* 149-213), EdgePassStep one pass (lines 218-246), EdgeEndStep the rest   *)
(* of the handler after the third pass (lines 249-252).                    *)
(***************************************************************************)
EdgePixels == 1..EdgeWidth
MidGrey == <<128, 128, 128, 255>>
OpaqueBlack == <<0, 0, 0, 255>>
EdgePalette == {White, MidGrey, OpaqueBlack}

EdgeTarget == SeedTarget(EdgeWidth, 1, obs.edge.base, obs.edge.seed[1], 0)

EdgeBeginStep(x) ==
    /\ Mounted
    /\ obs.edge.phase = "idle"
    /\ ActiveCtx
    /\ LET data == layerCanvases[activeLayerId].data
           hard == HardFill(EdgeWidth, 1, data, x, 0, color)
       IN  /\ ~SameAsFill(SeedTarget(EdgeWidth, 1, data, x, 0), color)
           /\ obs' = [obs EXCEPT !.edge =
                        [phase |-> "passes", seed |-> <<x, 0>>,
                         base |-> data, data |-> hard.data,
                         expanded |-> hard.visited, passes |-> <<>>]]
    /\ UNCHANGED coreVars

EdgePassStep ==
    /\ obs.edge.phase = "passes"
    /\ Len(obs.edge.passes) < 3
    /\ LET e == obs.edge
           after == ScanPass(EdgeWidth, 1, e.data, e.expanded, EdgeTarget,
                             color)
       IN  obs' = [obs EXCEPT !.edge =
                     [e EXCEPT !.data = after.data,
                               !.expanded = after.expanded,
                               !.passes = Append(@,
                                   [expanded |-> e.expanded, data |-> e.data,
                                    newly |-> after.newly])]]
    /\ UNCHANGED coreVars

EdgeEndStep ==
    /\ obs.edge.phase = "passes"
    /\ Len(obs.edge.passes) = 3
    /\ floodFill(EdgeWidth, 1, obs.edge.seed[1], 0)
    /\ obs' = [obs EXCEPT !.edge.phase = "done"]

InitEdge ==
    /\ canvasSize = "size"
    /\ tool = "fill"
    /\ color = Red
    /\ brushSize = DefaultBrushSize
    /\ currentFilePath = "file"
    /\ layers = << [DefaultLayer(2) EXCEPT !.name = 2], DefaultLayer(1) >>
    /\ activeLayerId = 1
    /\ layerIdCounter = 2
    /\ timers = <<>>
    /\ \E data \in [EdgePixels -> EdgePalette] :
          layerCanvases =
              [id \in {1, 2} |->
                  [NewCanvas EXCEPT !.data =
                      IF id = 1 THEN data
                      ELSE [p \in EdgePixels |-> MidGrey]]]
    /\ display = composite(EdgeWidth, 1, layers, layerCanvases)
    /\ isDrawing = FALSE
    /\ lastPos = <<>>
    /\ history = <<>>
    /\ historyIndex = -1
    /\ beforeState = <<>>
    /\ loads = <<>>
    /\ obs = NoObs

NextEdge ==
    \/ \E x \in 0..(EdgeWidth - 1) : EdgeBeginStep(x)
    \/ EdgePassStep
    \/ EdgeEndStep

SpecEdge == InitEdge /\ [][NextEdge]_vars

(***************************************************************************)
(* The round-trip specification: a canvas with the layers L2 (hidden, at   *)
(* half opacity, holding the dot image) over L1 (holding the red image),   *)
(* either of them active, the pen or the eraser chosen; pointer-down,      *)
(* release and select-layer for MaxRoundSteps handler invocations; then    *)
(* export-project, import-project of the document produced, the timer      *)
(* callback and the decodes, with no other handler in between.             *)
(***************************************************************************)
RoundEdit == obs.round.phase = "editing" /\ obs.steps < MaxRoundSteps

RoundObserve == obs' = [obs EXCEPT !.steps = @ + 1]

RoundDownStep(x, y) ==
    RoundEdit /\ ~isDrawing /\ handlePointerDown(x, y) /\ RoundObserve

RoundUpStep == RoundEdit /\ handlePointerUp /\ RoundObserve

RoundSelectStep(id) == RoundEdit /\ handleSelectLayer(id) /\ RoundObserve

RoundExportStep ==
    /\ Mounted
    /\ obs.round.phase = "editing"
    /\ obs' = [obs EXCEPT !.round =
                  [phase |-> "exported", doc |-> buildProjectData,
                   layers |-> layers, activeLayerId |-> activeLayerId,
                   buffers |-> [id \in DOMAIN layerCanvases |->
                                   layerCanvases[id].data]]]
    /\ UNCHANGED coreVars

RoundOpenStep ==
    /\ obs.round.phase = "exported"
    /\ handleOpen(obs.round.doc)
    /\ obs' = [obs EXCEPT !.round.phase = "opened"]

RoundTimerStep ==
    /\ obs.round.phase = "opened"
    /\ timerFires(1)
    /\ obs' = [obs EXCEPT !.round.phase =
                  IF loads' = <<>> THEN "done" ELSE "loading"]

RoundLoadedStep(d) ==
    /\ obs.round.phase = "loading"
    /\ imageLoaded(1, d)
    /\ obs' = [obs EXCEPT !.round.phase =
                  IF loads' = <<>> THEN "done" ELSE "loading"]

InitRound ==
    /\ canvasSize = "size"
    /\ tool \in {"pen", "eraser"}
    /\ color = Red
    /\ brushSize = DefaultBrushSize
    /\ currentFilePath = "file"
    /\ layers = << [id |-> 2, name |-> 2, opacity |-> 50, visible |-> FALSE],
                   DefaultLayer(1) >>
    /\ activeLayerId \in {1, 2}
    /\ layerIdCounter = 2
    /\ timers = <<>>
    /\ layerCanvases = [id \in {1, 2} |->
                           [NewCanvas EXCEPT !.data = IF id = 1 THEN ImgRed
                                                               ELSE ImgDot]]
    /\ display = composite(Width, Height, layers, layerCanvases)
    /\ isDrawing = FALSE
    /\ lastPos = <<>>
    /\ history = <<>>
    /\ historyIndex = -1
    /\ beforeState = <<>>
    /\ loads = <<>>
    /\ obs = NoObs

NextRound ==
    \/ \E x \in Xs, y \in Ys : RoundDownStep(x, y)
    \/ RoundUpStep
    \/ \E id \in LayerIds(layers) : RoundSelectStep(id)
    \/ RoundExportStep
    \/ RoundOpenStep
    \/ RoundTimerStep
    \/ \E d \in UNION { loads[k].decodes : k \in 1..Len(loads) } :
          RoundLoadedStep(d)

SpecRound == InitRound /\ [][NextRound]_vars

(***************************************************************************)
(* The reorder specification: a canvas with the layers L3 over L2 over L1  *)
(* holding three different images, any of them active, one history entry   *)
(* of L1; reorder-layer with the id of a layer or an id naming none, in    *)
(* either direction, select-layer and delete-layer for MaxOrderSteps       *)
(* handler invocations.                                                    *)
(***************************************************************************)
OrderIds == {1, 2, 3, 4}

\* what the reorder about to run will find: no layer of that id, the layer at
\* the end it is moved towards, or a neighbour to exchange it with
OrderCase(id, direction) ==
    IF id \notin LayerIds(layers) THEN "unknownId"
    ELSE IF \E i \in 1..Len(layers) :
               layers[i].id = id /\ i + direction \in 1..Len(layers)
    THEN "exchanged"
    ELSE "atEnd"

OrderObserve(mark) ==
    obs' = [NoObs EXCEPT !.steps = obs.steps + 1, !.mark = mark]

OrderMoveStep(id, direction) ==
    handleMoveLayer(id, direction) /\ OrderObserve(OrderCase(id, direction))

OrderSelectStep(id) == handleSelectLayer(id) /\ OrderObserve("none")

OrderDeleteStep(id) == handleDeleteLayer(id) /\ OrderObserve("none")

InitOrder ==
    /\ canvasSize = "size"
    /\ tool = "pen"
    /\ color = Black
    /\ brushSize = DefaultBrushSize
    /\ currentFilePath = "file"
    /\ layers = << [DefaultLayer(3) EXCEPT !.name = 3],
                   [DefaultLayer(2) EXCEPT !.name = 2], DefaultLayer(1) >>
    /\ activeLayerId \in {1, 2, 3}
    /\ layerIdCounter = 3
    /\ timers = <<>>
    /\ layerCanvases = [id \in {1, 2, 3} |->
                           [NewCanvas EXCEPT !.data =
                               IF id = 1 THEN ImgRed
                               ELSE IF id = 2 THEN ImgDot ELSE BlankData]]
    /\ display = composite(Width, Height, layers, layerCanvases)
    /\ isDrawing = FALSE
    /\ lastPos = <<>>
    /\ history = << [layerId |-> 1, imageData |-> BlankData] >>
    /\ historyIndex = 0
    /\ beforeState = <<>>
    /\ loads = <<>>
    /\ obs = NoObs

NextOrder ==
    \/ obs.steps < MaxOrderSteps /\ \E id \in OrderIds, dir \in {-1, 1} :
                                        OrderMoveStep(id, dir)
    \/ obs.steps < MaxOrderSteps /\ \E id \in LayerIds(layers) :
                                        OrderSelectStep(id)
    \/ obs.steps < MaxOrderSteps /\ \E id \in LayerIds(layers) :
                                        OrderDeleteStep(id)

SpecOrder == InitOrder /\ [][NextOrder]_vars

(***************************************************************************)
(* The position specification: a canvas with the layers L2 over L1 and a   *)
(* history of up to MaxPurgeLen entries of the two layers at any position; *)
(* then clear (a commit), undo, redo, delete-layer (a purge) and project   *)
(* loads with their timer callbacks and decodes, in any interleaving, for  *)
(* MaxPositionSteps handler invocations.                                   *)
(***************************************************************************)
PositionHistories ==
    UNION { [1..n -> [layerId : {1, 2}, imageData : {BlankData}]] :
               n \in 0..MaxPurgeLen }

PositionDocs == {DocV1Image, DocV2, DocV2EmptyImages}

InitPosition ==
    /\ canvasSize = "size"
    /\ tool = "pen"
    /\ color = Black
    /\ brushSize = DefaultBrushSize
    /\ currentFilePath = Null
    /\ layers = << [DefaultLayer(2) EXCEPT !.name = 2], DefaultLayer(1) >>
    /\ activeLayerId = 2
    /\ layerIdCounter = 2
    /\ timers = <<>>
    /\ layerCanvases = [id \in {1, 2} |-> NewCanvas]
    /\ display = composite(Width, Height, layers, layerCanvases)
    /\ isDrawing = FALSE
    /\ lastPos = <<>>
    /\ history \in PositionHistories
    /\ historyIndex \in -1..(Len(history) - 1)
    /\ beforeState = <<>>
    /\ loads = <<>>
    /\ obs = NoObs

NextPosition ==
    \/ obs.steps < MaxPositionSteps /\ ClearStep
    \/ obs.steps < MaxPositionSteps /\ UndoStep
    \/ obs.steps < MaxPositionSteps /\ RedoStep
    \/ obs.steps < MaxPositionSteps /\ \E id \in LayerIds(layers) :
                                           DeleteLayerStep(id)
    \/ obs.steps < MaxPositionSteps /\ \E doc \in PositionDocs :
                                           CanOpen /\ CanCreate /\ OpenStep(doc)
    \/ obs.steps < MaxPositionSteps /\ \E k \in 1..Len(timers) : TimerStep(k)
    \/ obs.steps < MaxPositionSteps /\ \E k \in 1..Len(loads) :
                                           \E d \in loads[k].decodes :
                                               ImageLoadedStep(k, d)

SpecPosition == InitPosition /\ [][NextPosition]_vars

(***************************************************************************)
(* The capture specification: a canvas with the layers L2 (holding the red *)
(* image) over L1 (holding the dot image), L2 active, empty history, the   *)
(* pen chosen; pointer-down (a stroke, or a fill once the fill tool is *)
(* chosen), draw-moves, release, the choice of the pen or the fill tool,   *)
(* clear, select-layer, add-layer and delete-layer in any interleaving,    *)
(* for MaxCaptureSteps handler invocations.  The observer follows each     *)
(* before-snapshot from the buffer captureBeforeState read it from to the  *)
(* history entry commitAction stores it in.                                *)
(***************************************************************************)
\* the origins of the entries left when the entries of layer id are purged
RECURSIVE OriginsKept(_, _, _)
OriginsKept(hist, origins, id) ==
    IF hist = <<>> THEN <<>>
    ELSE IF Head(hist).layerId = id
    THEN OriginsKept(Tail(hist), Tail(origins), id)
    ELSE <<Head(origins)>> \o OriginsKept(Tail(hist), Tail(origins), id)

\* captured: the step read the active layer's buffer into the
\* before-snapshot; purged: the layer whose entries the step removed
CaptureObserve(captured, purged) ==
    LET source == IF captured THEN activeLayerId ELSE obs.capture.layer
        kept == IF purged = NoLayer THEN obs.capture.origins
                ELSE OriginsKept(history, obs.capture.origins, purged)
    IN  obs' = [NoObs EXCEPT
                  !.steps = obs.steps + 1,
                  !.capture =
                      [layer |-> IF beforeState' = <<>> THEN NoLayer
                                                        ELSE source,
                       origins |-> IF Len(history') = Len(kept) + 1
                                   THEN Append(kept, source)
                                   ELSE kept]]

CaptureDownStep(x, y) ==
    /\ tool = "fill" \/ ~isDrawing
    /\ handlePointerDown(x, y)
    /\ CaptureObserve(ActiveCtx, NoLayer)

CaptureMoveStep(x, y) ==
    handlePointerMove(x, y) /\ CaptureObserve(FALSE, NoLayer)

CaptureUpStep == handlePointerUp /\ CaptureObserve(FALSE, NoLayer)

CaptureToolStep(t) == setTool(t) /\ CaptureObserve(FALSE, NoLayer)

CaptureClearStep == Clear /\ CaptureObserve(ActiveCtx, NoLayer)

CaptureSelectStep(id) == handleSelectLayer(id) /\ CaptureObserve(FALSE, NoLayer)

CaptureAddStep == handleAddLayer /\ CaptureObserve(FALSE, NoLayer)

CaptureDeleteStep(id) ==
    /\ handleDeleteLayer(id)
    /\ CaptureObserve(FALSE, IF Len(layers) <= 1 THEN NoLayer ELSE id)

InitCapture ==
    /\ canvasSize = "size"
    /\ tool = "pen"
    /\ color = Black
    /\ brushSize = DefaultBrushSize
    /\ currentFilePath = "file"
    /\ layers = << [DefaultLayer(2) EXCEPT !.name = 2], DefaultLayer(1) >>
    /\ activeLayerId = 2
    /\ layerIdCounter = 2
    /\ timers = <<>>
    /\ layerCanvases = [id \in {1, 2} |->
                           [NewCanvas EXCEPT !.data = IF id = 2 THEN ImgRed
                                                               ELSE ImgDot]]
    /\ display = composite(Width, Height, layers, layerCanvases)
    /\ isDrawing = FALSE
    /\ lastPos = <<>>
    /\ history = <<>>
    /\ historyIndex = -1
    /\ beforeState = <<>>
    /\ loads = <<>>
    /\ obs = NoObs

NextCapture ==
    \/ obs.steps < MaxCaptureSteps /\ \E x \in Xs, y \in Ys :
                                          CaptureDownStep(x, y)
    \/ obs.steps < MaxCaptureSteps /\ \E x \in Xs, y \in Ys :
                                          CaptureMoveStep(x, y)
    \/ obs.steps < MaxCaptureSteps /\ CaptureUpStep
    \/ obs.steps < MaxCaptureSteps /\ \E t \in {"pen", "fill"} :
                                          CaptureToolStep(t)
    \/ obs.steps < MaxCaptureSteps /\ CaptureClearStep
    \/ obs.steps < MaxCaptureSteps /\ \E id \in LayerIds(layers) :
                                          CaptureSelectStep(id)
    \/ obs.steps < MaxCaptureSteps /\ CanCreate /\ CaptureAddStep
    \/ obs.steps < MaxCaptureSteps /\ \E id \in LayerIds(layers) :
                                          CaptureDeleteStep(id)

SpecCapture == InitCapture /\ [][NextCapture]_vars

(***************************************************************************)
(* Properties.                                                             *)
(***************************************************************************)

\* C1: in every reachable state the history list holds at most maxHistory
\* (50) entries.
C1_HistoryBounded == Len(history) <= maxHistory

\* a commit arrived at a full list: more than maxHistory entries were committed
\* in a row and the list holds exactly maxHistory
C1_Witness == Len(history) = maxHistory /\ obs.streak > maxHistory

\* the buffers of `layer` after 1, 2, ..., k calls of undo
RECURSIVE UndoRun(_, _, _, _, _)
UndoRun(k, hist, idx, canvases, layer) ==
    IF k = 0 THEN <<>>
    ELSE LET r == undo(hist, idx, canvases)
         IN  <<r.canvases[layer].data>> \o
             UndoRun(k - 1, r.history, r.historyIndex, r.canvases, layer)

\* a row of completed strokes/fills on the active layer, none in progress
TripSettled ==
    /\ obs.trip.bases # <<>>
    /\ obs.trip.open = <<>>
    /\ ~isDrawing
    /\ obs.trip.layer \in DOMAIN layerCanvases

\* C2 as stated: after any N completed strokes/fills in a row on the active
\* layer, N calls of undo leave the layer's buffer as it was before the first
\* of the N operations.
C2_NUndosRestore ==
    TripSettled =>
        LET n == Len(obs.trip.bases)
            run == UndoRun(n, history, historyIndex, layerCanvases,
                           obs.trip.layer)
        IN  \A m \in 1..n : run[m] = obs.trip.bases[n - m + 1]

\* C2, amended: after N <= maxHistory completed strokes/fills in a row on the
\* active layer, each of which recorded a history entry, N calls of undo leave
\* the layer's buffer as it was before the first of the N operations.
C2_RecordedUndosRestore ==
    TripSettled =>
        LET n == Len(obs.trip.bases)
            run == UndoRun(n, history, historyIndex, layerCanvases,
                           obs.trip.layer)
        IN  \A m \in 1..n :
                (m <= maxHistory /\ \A i \in (n - m + 1)..n : obs.trip.recs[i])
                    => run[m] = obs.trip.bases[n - m + 1]

\* maxHistory recorded operations in a row, the first of which changed the
\* buffer that the undos have to bring back
C2_Witness ==
    /\ TripSettled
    /\ Len(obs.trip.bases) >= maxHistory
    /\ \A i \in (Len(obs.trip.bases) - maxHistory + 1)..Len(obs.trip.bases) :
            obs.trip.recs[i]
    /\ obs.trip.bases[Len(obs.trip.bases) - maxHistory + 1]
            # layerCanvases[obs.trip.layer].data

\* C3: right after a completed stroke, fill or clear that recorded its entry,
\* undo followed by redo leaves every layer buffer as the operation left it
\* and the history position where it was.
C3_UndoRedoRestores ==
    obs.done =>
        LET u == undo(history, historyIndex, layerCanvases)
            r == redo(u.history, u.historyIndex, u.canvases)
        IN  /\ r.canvases = layerCanvases
            /\ r.historyIndex = historyIndex

\* an operation just completed whose undo changes a buffer
C3_Witness ==
    /\ obs.done
    /\ undo(history, historyIndex, layerCanvases).swapped
    /\ undo(history, historyIndex, layerCanvases).canvases # layerCanvases

\* C4: once a delete-layer has succeeded, the entry undo would select and the
\* entry redo would select name layers that are in the layer store.
C4_SelectedLayersPresent ==
    (Mounted /\ obs.deleted) =>
        /\ historyIndex >= 0
              => history[historyIndex + 1].layerId \in DOMAIN layerCanvases
        /\ historyIndex < Len(history) - 1
              => history[historyIndex + 2].layerId \in DOMAIN layerCanvases

\* how many of k calls of undo in a row swap a buffer and move the position
\* back by one
RECURSIVE UndoSwaps(_, _, _, _)
UndoSwaps(k, hist, idx, canvases) ==
    IF k = 0 THEN 0
    ELSE LET r == undo(hist, idx, canvases)
         IN  (IF r.swapped /\ r.historyIndex = idx - 1 THEN 1 ELSE 0)
             + UndoSwaps(k - 1, r.history, r.historyIndex, r.canvases)

\* C5: after more than maxHistory operations were committed with no undo,
\* layer deletion or load in between, each of maxHistory calls of undo in a
\* row swaps a buffer and decrements the position.
C5_LastFiftyUndoable ==
    obs.streak > maxHistory =>
        UndoSwaps(maxHistory, history, historyIndex, layerCanvases)
            = maxHistory

\* more than maxHistory commits in a row, the last on a second layer
C5_Witness ==
    /\ obs.streak > maxHistory
    /\ Len(layers) >= 2
    /\ history[Len(history)].layerId # history[1].layerId

\* C6: the ordered layer list is non-empty in every reachable state.
C6_LayersNonEmpty == Len(layers) >= 1

\* C7: after every handler and the reconciliation it triggers, the ids keyed
\* in the layer store are the ids of the layer list, and a buffer allocated
\* for a new id is fully transparent.
C7_StoreMatchesList ==
    [][ /\ Mounted' => DOMAIN layerCanvases' = LayerIds(layers')
        /\ \A id \in DOMAIN layerCanvases' \ DOMAIN layerCanvases :
               layerCanvases'[id].data = BlankData ]_vars

\* layers were added and one deleted on a canvas that holds drawn pixels
C7_Witness ==
    /\ Mounted
    /\ obs.deleted
    /\ Len(layers) >= 2
    /\ \E id \in DOMAIN layerCanvases : layerCanvases[id].data # BlankData

\* a document the codec accepts: parsable, version 1, or version 2 with layers
WellFormed(doc) ==
    /\ doc.parses
    /\ doc.version \in {1, 2}
    /\ doc.version = 2 => (doc.hasLayers /\ doc.layers # <<>>)

\* the step with which the load of a well-formed document is complete: its
\* timer callback starts no decode, or its last decode arrives
LoadCompletes ==
    \/ \E k \in 1..Len(timers) :
          /\ Mounted
          /\ WellFormed(timers[k])
          /\ timerFires(k)
          /\ Len(loads') = Len(loads)
    \/ \E k \in 1..Len(loads) : \E d \in loads[k].decodes :
          /\ loads[k].decodes = {d}
          /\ imageLoaded(k, d)

\* C8: when the load of a well-formed document (v1 or v2, with or without
\* images) completes, the history is empty and the position is -1.
C8_LoadClearsHistory ==
    [][ LoadCompletes => (history' = <<>> /\ historyIndex' = -1) ]_vars

\* C9: a decode of loadLayerImages that completes while others of the same call
\* are outstanding leaves the history and the display as they are; the last
\* one empties the history, composites and ends the call.
C9_ClearsAtLastDecode ==
    [][ \A k \in 1..Len(loads) : \A d \in loads[k].decodes :
            (loads[k].kind = "v2" /\ imageLoaded(k, d)) =>
                IF loads[k].decodes = {d}
                THEN /\ history' = <<>>
                     /\ historyIndex' = -1
                     /\ display' = composite(Width, Height,
                                             loads[k].layers, layerCanvases')
                     /\ Len(loads') = Len(loads) - 1
                ELSE /\ history' = history
                     /\ historyIndex' = historyIndex
                     /\ display' = display
                     /\ Len(loads') = Len(loads) ]_vars

\* one of two decodes has drawn its image, the other is outstanding, and there
\* is history to keep
C9_Witness ==
    /\ history # <<>>
    /\ \E k \in 1..Len(loads) :
          /\ loads[k].kind = "v2"
          /\ loads[k].remaining = 1
          /\ \E id \in DOMAIN layerCanvases :
                /\ layerCanvases[id].data \in {ImgRed, ImgDot}
                /\ \A d \in loads[k].decodes : d.id # id

\* a document the codec has to reject: unparsable, or without a known version
Malformed(doc) == ~doc.parses \/ doc.version \notin {1, 2}

\* C10: handleOpen of a malformed document leaves canvas size, tool, brush
\* size, colour, layer list, active layer, buffers, history and file path
\* unchanged.
C10_MalformedChangesNothing ==
    [][ \A doc \in Docs :
            (Malformed(doc) /\ handleOpen(doc)) =>
                UNCHANGED <<canvasSize, tool, brushSize, color, layers,
                            activeLayerId, layerCanvases, history,
                            historyIndex, currentFilePath>> ]_vars

\* the timer callback of a v2 document whose layerImages mapping is empty: it
\* calls loadLayerImages with a map of size 0
EmptyLoadFires(k) ==
    /\ Mounted
    /\ IsV2(timers[k])
    /\ timers[k].hasLayerImages
    /\ timers[k].layerImages = <<>>
    /\ timerFires(k)

\* C11: the load of a v2 document with an empty layerImages mapping reaches
\* the all-done state in the timer callback itself (history emptied, display
\* composited, no decode left waiting), and every layer buffer is then fully
\* transparent.
C11_EmptyLoadAllTransparent ==
    [][ \A k \in 1..Len(timers) :
            EmptyLoadFires(k) =>
                /\ history' = <<>>
                /\ historyIndex' = -1
                /\ display' = composite(Width, Height, layers', layerCanvases')
                /\ loads' = loads
                /\ \A id \in DOMAIN layerCanvases' :
                       layerCanvases'[id].data = BlankData ]_vars

\* a version 1 document that carries its image
V1WithImage(doc) == doc.parses /\ ~IsV2(doc) /\ doc.version = 1 /\ doc.hasImage

\* C12: once a version 1 document with an embedded image is opened, and until
\* another handler runs, the layer list holds exactly one layer and it is the
\* active one; when the load is done that layer's buffer is the embedded
\* image.
C12_V1LoadPopulatesOneLayer ==
    (obs.load.phase # "none" /\ V1WithImage(obs.load.doc)) =>
        /\ Len(layers) = 1
        /\ activeLayerId = layers[1].id
        /\ DOMAIN layerCanvases = {layers[1].id}
        /\ obs.load.phase = "done" =>
              layerCanvases[layers[1].id].data = obs.load.doc.imageData

\* a version 1 load is done: its one layer holds the embedded image and the
\* display shows it
C12_Witness ==
    /\ obs.load.phase = "done"
    /\ V1WithImage(obs.load.doc)
    /\ layerCanvases[layers[1].id].data = ImgRed
    /\ display = [p \in PixelIdx |-> Opaque(Red)]

\* the ids a layerImages mapping names that the layer store does not hold
StrayIds(images, canvases) ==
    { images[i].id : i \in 1..Len(images) } \ DOMAIN canvases

\* a v2 document whose layerImages mapping names an id that is not in layers
HasStray(doc) ==
    /\ IsV2(doc)
    /\ doc.hasLayerImages
    /\ \E i \in 1..Len(doc.layerImages) :
          doc.layerImages[i].id \notin LayerIds(doc.layers)

\* C13: the call of loadLayerImages with an entry for an id the layer store
\* does not hold changes no buffer; a decode changes no buffer but that of its
\* own layer; and when the load of a document with such entries is done, every
\* entry whose layer is in the store has its image in that layer's buffer, the
\* history is empty and the display is the composite.
C13_AbsentEntrySkipped ==
    [][ /\ \A k \in 1..Len(timers) :
              ( /\ Mounted
                /\ IsV2(timers[k])
                /\ timers[k].hasLayerImages
                /\ StrayIds(timers[k].layerImages, layerCanvases) # {}
                /\ timerFires(k) )
              => layerCanvases' = layerCanvases
        /\ \A k \in 1..Len(loads) : \A d \in loads[k].decodes :
              imageLoaded(k, d) =>
                  \A id \in DOMAIN layerCanvases \ {d.id} :
                      layerCanvases'[id] = layerCanvases[id]
        /\ (obs'.load.phase = "done" /\ HasStray(obs'.load.doc)) =>
              /\ \A i \in 1..Len(obs'.load.doc.layerImages) :
                    LET e == obs'.load.doc.layerImages[i]
                    IN  e.id \in DOMAIN layerCanvases'
                            => layerCanvases'[e.id].data = e.dataUrl
              /\ history' = <<>>
              /\ historyIndex' = -1
              /\ display' = composite(Width, Height,
                                      layers', layerCanvases') ]_vars

\* the load of a document with entries for absent ids before and after the
\* entry of its layer is done, and the layer shows its image
C13_Witness ==
    /\ obs.load.phase = "done"
    /\ obs.load.doc = DocV2Stray
    /\ layerCanvases[101].data = ImgRed
    /\ display = [p \in PixelIdx |-> Opaque(Red)]

\* C14: a fill leaves its seed pixel in the fill colour at full opacity, and
\* a fill whose seed pixel already has the fill colour at full opacity changes
\* no pixel of any buffer, records no history entry, leaves the history
\* position where it was and leaves no before-snapshot pending.
C14_SecondFillIsNoOp ==
    [][ \A x \in Xs, y \in Ys :
            (tool = "fill" /\ ActiveCtx /\ handlePointerDown(x, y)) =>
                LET seed == layerCanvases[activeLayerId].data[Idx(x, y)]
                    after == layerCanvases'[activeLayerId].data[Idx(x, y)]
                IN  /\ SameAsFill(after, color)
                    /\ SameAsFill(seed, color) =>
                          /\ layerCanvases' = layerCanvases
                          /\ history' = history
                          /\ historyIndex' = historyIndex
                          /\ beforeState' = <<>> ]_vars

\* a fill that recorded its entry was followed by a fill that recorded none
C14_Witness ==
    /\ tool = "fill"
    /\ ~isDrawing
    /\ obs.trip.recs = <<TRUE, FALSE>>
    /\ Len(history) = 1
    /\ layerCanvases[obs.trip.layer].data = obs.trip.bases[2]

\* C15: a fill whose seed lies outside the buffer (x < 0, x >= width, y < 0
\* or y >= height) leaves every buffer as it was and records no history
\* entry.
C15_OutOfRangeSeedFails ==
    [][ \A x \in SeedXs, y \in SeedYs :
            ((x \notin Xs \/ y \notin Ys) /\ FillStep(x, y)) =>
                /\ layerCanvases' = layerCanvases
                /\ history' = history
                /\ historyIndex' = historyIndex ]_vars

\* pixel (x, y) of a buffer of the ten-by-ten canvas
At(data, x, y) == data[y * 10 + x + 1]

\* the fill of the scenario: seed (5, 5), colour #FF0000, all-white layer
SceneFillOnWhite ==
    /\ layerCanvases[activeLayerId].data = AllWhite
    /\ color = Red
    /\ SceneFillStep(5, 5)

\* C16 as stated: on the 10x10 canvas with an all-white active layer, the
\* fill at seed (5, 5) with #FF0000 makes every pixel off the border opaque
\* red and leaves pixel (0, 0) white.
C16_CornerStaysWhite ==
    [][ SceneFillOnWhite =>
            LET after == layerCanvases'[activeLayerId].data
            IN  /\ \A x \in 1..8, y \in 1..8 : At(after, x, y) = Opaque(Red)
                /\ At(after, 0, 0) = White ]_vars

\* C16, amended: on the 10x10 canvas with an all-white active layer, the fill
\* at seed (5, 5) with #FF0000 makes every pixel opaque red, pixel (0, 0)
\* included.  Pixel (0, 0) stays white where an opaque black column between
\* it and the seed cuts the connection: then the pixels right of the column
\* turn opaque red and those left of it stay white.
C16_WholeLayerRed ==
    [][ /\ SceneFillOnWhite =>
              \A x \in 0..9, y \in 0..9 :
                  At(layerCanvases'[activeLayerId].data, x, y) = Opaque(Red)
        /\ \A c \in 1..4 :
              ( /\ layerCanvases[activeLayerId].data = WhiteWithColumn(c)
                /\ color = Red
                /\ SceneFillStep(5, 5) )
              => LET after == layerCanvases'[activeLayerId].data
                 IN  \A x \in 0..9, y \in 0..9 :
                         At(after, x, y) =
                             IF x < c THEN White
                             ELSE IF x = c THEN Opaque(Black)
                             ELSE Opaque(Red) ]_vars

\* the all-white layer was filled in red: one entry recorded, pixel (0, 0)
\* and the display at (0, 0) are opaque red
C16_Witness ==
    /\ obs.trip.bases = <<AllWhite>>
    /\ obs.trip.recs = <<TRUE>>
    /\ color = Red
    /\ At(layerCanvases[1].data, 0, 0) = Opaque(Red)
    /\ At(display, 0, 0) = Opaque(Red)

\* C17: a call of composite() (made by an export) changes no layer buffer, no
\* layer metadata and no history state, leaves in the display buffer the
\* composite of the layer list, the buffers and the visibility and opacity
\* of the layers, and a second call right after the first leaves the display
\* buffer as the first left it.
C17_CompositeIsPure ==
    [][ obs'.exported =>
            /\ UNCHANGED <<layers, activeLayerId, layerCanvases, history,
                           historyIndex, beforeState>>
            /\ display' = composite(Width, Height, layers, layerCanvases)
            /\ obs.exported => display' = display ]_vars

\* composite() was called on a layer at half opacity that holds a drawn
\* pixel: the display shows the blend
C17_Witness ==
    /\ obs.exported
    /\ \E i \in 1..Len(layers) :
          /\ layers[i].opacity = 50
          /\ layers[i].visible
          /\ layerCanvases[layers[i].id].data # BlankData
    /\ \E p \in PixelIdx : display[p] \notin {White, Opaque(Black), Opaque(Red)}

\* the layers of ls that composite() draws: visible, with a buffer
Drawn(ls, canvases) ==
    { i \in 1..Len(ls) : ls[i].visible /\ ls[i].id \in DOMAIN canvases }

IsVisible(layer) == layer.visible

\* ls with the opacity of every invisible layer replaced by opacity
Reopaque(ls, opacity) ==
    [i \in 1..Len(ls) |->
        IF ls[i].visible THEN ls[i] ELSE [ls[i] EXCEPT !.opacity = opacity]]

\* C18: composite() starts from opaque white and draws the layers from the
\* last index (bottom) to index 0 (top): a pixel that no drawn layer covers
\* is white, an invisible layer contributes nothing whatever its opacity,
\* and where the topmost drawn layer has opacity 1 and an opaque pixel the
\* result is that pixel, the one of the smallest list index.
C18_CompositeBottomToTop ==
    Mounted =>
        LET D  == composite(Width, Height, layers, layerCanvases)
            dr == Drawn(layers, layerCanvases)
        IN  /\ D = composite(Width, Height, SelectSeq(layers, IsVisible),
                             layerCanvases)
            /\ \A opacity \in {0, 50, 100} :
                  D = composite(Width, Height, Reopaque(layers, opacity),
                                layerCanvases)
            /\ \A p \in PixelIdx :
                  /\ (\A i \in dr :
                         layerCanvases[layers[i].id].data[p] = Transparent)
                        => D[p] = White
                  /\ dr # {} =>
                        LET top == CHOOSE i \in dr : \A j \in dr : i <= j
                            px  == layerCanvases[layers[top].id].data[p]
                        IN  (layers[top].opacity = 100 /\ px[4] = 255)
                                => D[p] = px

\* two visible layers at opacity 1 hold different opaque pixels at the same
\* place and the display shows the one of the smaller index
C18_Witness ==
    /\ Mounted
    /\ Len(layers) >= 2
    /\ \A i \in 1..2 : /\ layers[i].visible
                       /\ layers[i].opacity = 100
                       /\ layers[i].id \in DOMAIN layerCanvases
    /\ \E p \in PixelIdx :
          LET top == layerCanvases[layers[1].id].data[p]
              low == layerCanvases[layers[2].id].data[p]
          IN  /\ top[4] = 255
              /\ low[4] = 255
              /\ top # low
              /\ display[p] = top
              /\ composite(Width, Height, layers, layerCanvases)[p] = top

\* an invisible layer at half opacity holds drawn pixels and the composite
\* is white there
C18_InvisibleReached ==
    \E i \in 1..Len(layers) :
        /\ ~layers[i].visible
        /\ layers[i].opacity = 50
        /\ layers[i].id \in DOMAIN layerCanvases
        /\ layerCanvases[layers[i].id].data # BlankData

\* C19: after every operation that can change pixels or layer metadata
\* (stroke and fill, clear, undo, redo, layer add, delete, reorder, visibility
\* and opacity change, each image-decode completion of a load, in any
\* interleaving) the display buffer equals the composite of the current layer
\* list, the current buffers and the current visibility and opacity.
C19_DisplayIsComposite ==
    Mounted => display = composite(Width, Height, layers, layerCanvases)

\* every handler other than an image-decode completion leaves the display
\* equal to the composite when it found it so
DisplayKeptOutsideDecodes ==
    [][ ( /\ Mounted => display = composite(Width, Height, layers, layerCanvases)
          /\ Mounted'
          /\ ~ \E k \in 1..Len(loads) :
                  \E d \in loads[k].decodes : imageLoaded(k, d) )
            => display' = composite(Width, Height, layers', layerCanvases') ]_vars

HalfRed == <<255, 128, 128, 255>>

LayerIdSeq(ls) == [i \in 1..Len(ls) |-> ls[i].id]

\* C21: add-layer puts the new layer at index 0 of the list, keeps the
\* existing layers in their order behind it and makes the new layer the
\* active one; from [L1] two add-layer calls give [L3, L2, L1], L3 active.
C21_AddLayerPrepends ==
    [][ handleAddLayer =>
            /\ Len(layers') = Len(layers) + 1
            /\ SubSeq(layers', 2, Len(layers')) = layers
            /\ layers'[1].id \notin LayerIds(layers)
            /\ activeLayerId' = layers'[1].id
            /\ (LayerIdSeq(layers) = <<1>> /\ layerIdCounter = 1)
                  => LayerIdSeq(layers') = <<2, 1>> /\ activeLayerId' = 2
            /\ (LayerIdSeq(layers) = <<2, 1>> /\ layerIdCounter = 2)
                  => LayerIdSeq(layers') = <<3, 2, 1>> /\ activeLayerId' = 3
      ]_vars

\* two add-layer calls were made on the list [L1]
C21_Witness ==
    /\ Mounted
    /\ LayerIdSeq(layers) = <<3, 2, 1>>
    /\ activeLayerId = 3
    /\ layerIdCounter = 3

\* a stroke is in progress on the active layer: its pointer-down found the
\* layer's buffer obs.trip.open[1], and only draw-moves and tool or colour
\* changes have run since
StrokeOpen == obs.trip.open # <<>>

\* C22: for a stroke the before-snapshot is captured once, at pointer-down;
\* no draw-move adds a history entry or changes the history position; and
\* finishing the stroke appends exactly one history entry, whose snapshot is
\* the active layer's buffer as it was at pointer-down.
C22_StrokeRecordsOneEntry ==
    [][ /\ StrokeOpen' => /\ isDrawing'
                          /\ beforeState' = obs'.trip.open
        /\ (StrokeOpen /\ StrokeOpen')
              => UNCHANGED <<history, historyIndex, beforeState>>
        /\ (StrokeOpen /\ finishStroke)
              => /\ Len(history') = historyIndex + 2
                 /\ SubSeq(history', 1, historyIndex + 1)
                       = SubSeq(history, 1, historyIndex + 1)
                 /\ history'[Len(history')] =
                       [layerId |-> obs.trip.layer,
                        imageData |-> obs.trip.open[1]]
                 /\ historyIndex' = historyIndex + 1
                 /\ beforeState' = <<>>
      ]_vars

\* a pen or eraser stroke with a draw-move has finished and the history holds
\* its entry
C22_Witness ==
    /\ obs.done
    /\ tool # "fill"
    /\ ~isDrawing
    /\ obs.trip.recs = <<TRUE>>
    /\ history = << [layerId |-> activeLayerId,
                     imageData |-> obs.trip.bases[1]] >>
    /\ \A p \in PixelIdx :
          layerCanvases[activeLayerId].data[p] # obs.trip.bases[1][p]

\* C23: undo() with the history position below 0 and redo() with the
\* position at the last entry do nothing: no layer buffer, no history entry
\* and not the history position changes (nor anything else of the canvas or
\* of the application).
C23_UndoRedoAtEndsAreNoOps ==
    [][ obs'.mark \in {"undoAtStart", "redoAtEnd"} => UNCHANGED coreVars ]_vars

\* undo() was called with the position below 0 while the history holds an
\* entry that an earlier undo() stepped back over
C23_Witness ==
    /\ obs.mark = "undoAtStart"
    /\ Len(history) >= 1
    /\ historyIndex = -1

\* redo() was called with the position at the last entry of a non-empty
\* history
C23_RedoAtEndReached ==
    /\ obs.mark = "redoAtEnd"
    /\ Len(history) >= 1
    /\ historyIndex = Len(history) - 1

\* the pixels of data whose four channels are each within the tolerance of
\* those of target
Matching(data, target) ==
    { i \in DOMAIN data : /\ Abs(data[i][1] - target[1]) <= 24
                          /\ Abs(data[i][2] - target[2]) <= 24
                          /\ Abs(data[i][3] - target[3]) <= 24
                          /\ Abs(data[i][4] - target[4]) <= 24 }

\* pixels i and j of a buffer w wide share an edge
Adjacent(w, i, j) ==
    \/ j = i + 1 /\ (i - 1) % w < w - 1
    \/ j = i - 1 /\ (i - 1) % w > 0
    \/ j = i + w
    \/ j = i - w

\* the pixels of within that a path of edge-sharing pixels of within joins
\* to a pixel of set
RECURSIVE Grow(_, _, _)
Grow(w, set, within) ==
    LET next == set \cup { j \in within : \E i \in set : Adjacent(w, i, j) }
    IN  IF next = set THEN set ELSE Grow(w, next, within)

\* the 4-connected component of the seed among the matching pixels
Component(w, data, startX, startY) ==
    LET seed == startY * w + startX + 1
        within == Matching(data, data[seed])
    IN  Grow(w, {seed}, within)

\* C24: for a seed inside the buffer that is not already the opaque fill
\* colour, the hard-boundary phase of floodFill sets to the fill colour with
\* alpha 255 exactly the pixels of the 4-connected component of the seed
\* among the pixels whose four channels are each within 24 of the seed
\* pixel's original channels, the seed pixel among them; those pixels hold
\* the opaque fill colour in the buffer the fill writes back.
C24_HardFillIsComponent ==
    (obs.seed # <<>> /\ obs.done) =>
        LET data == obs.trip.bases[1]
            x == obs.seed[1]
            y == obs.seed[2]
            seed == y * RegionWidth + x + 1
            hard == HardFill(RegionWidth, RegionHeight, data, x, y, color)
            comp == Component(RegionWidth, data, x, y)
        IN  /\ seed \in comp
            /\ hard.visited = comp
            /\ hard.data = [i \in RegionPixels |->
                               IF i \in comp THEN Opaque(color) ELSE data[i]]
            /\ \A i \in comp :
                  layerCanvases[activeLayerId].data[i] = Opaque(color)

\* a fill at the top left pixel of white, grey in the top row over faint
\* grey below has run: the top row is the region, the faint grey differs
\* from the seed by more than the tolerance in alpha only
C24_Witness ==
    /\ obs.done
    /\ obs.seed = <<0, 0>>
    /\ obs.trip.bases = << [i \in RegionPixels |->
                              IF i = 1 THEN White
                              ELSE IF i <= RegionWidth THEN Grey24
                              ELSE Grey24Faint] >>
    /\ Component(RegionWidth, obs.trip.bases[1], 0, 0) = 1..RegionWidth
    /\ \A i \in RegionPixels :
          (layerCanvases[activeLayerId].data[i] = Opaque(Red))
              <=> i <= RegionWidth

\* C25: a commit discards every entry beyond the position before it appends:
\* after a stroke, fill or clear that committed an entry, also one that
\* follows an undo, the entries up to the old position are kept, the new
\* entry is the last one, the position points at it, and redo() does nothing.
C25_CommitDropsRedoEntries ==
    [][ obs'.done =>
            /\ Len(history') = historyIndex + 2
            /\ SubSeq(history', 1, historyIndex + 1)
                  = SubSeq(history, 1, historyIndex + 1)
            /\ history'[Len(history')].layerId = activeLayerId
            /\ historyIndex' = Len(history') - 1
            /\ redo(history', historyIndex', layerCanvases')
                  = [history |-> history', historyIndex |-> historyIndex',
                     canvases |-> layerCanvases', swapped |-> FALSE]
      ]_vars

\* an entry was committed while an undone entry lay beyond the position, and
\* the new entry is the last one
C25_Witness ==
    /\ obs.done
    /\ obs.mark = "overRedo"
    /\ Len(history) >= 1
    /\ historyIndex = Len(history) - 1

\* the entries of hist that do not belong to layer id, in their order
Surviving(hist, id) ==
    LET OfOther(e) == e.layerId # id
    IN  SelectSeq(hist, OfOther)

\* C26: a purge of layer id (by a delete-layer that succeeds) keeps every
\* entry of every other layer in its original relative order and sets the
\* position to the old position minus the number of removed entries at or
\* before it, within the bounds of the new list; the surviving entries at or
\* before the position (undoable) and those after it (redoable) are the same
\* before and after.
C26_PurgeKeepsUndoRedoSets ==
    [][ \A id \in LayerIds(layers) :
          (Len(layers) > 1 /\ handleDeleteLayer(id)) =>
              LET removedBefore ==
                      Cardinality({ i \in 1..(historyIndex + 1) :
                                      history[i].layerId = id })
              IN  /\ history' = Surviving(history, id)
                  /\ historyIndex' = historyIndex - removedBefore
                  /\ historyIndex' \in -1..(Len(history') - 1)
                  /\ SubSeq(history', 1, historyIndex' + 1)
                        = Surviving(SubSeq(history, 1, historyIndex + 1), id)
                  /\ SubSeq(history', historyIndex' + 2, Len(history'))
                        = Surviving(SubSeq(history, historyIndex + 2,
                                           Len(history)), id)
      ]_vars

\* a delete-layer removed entries on both sides of the position and left
\* entries of the other layer on both sides
C26_Witness ==
    /\ obs.mark = "purgedBothSides"
    /\ Len(layers) = 1
    /\ historyIndex >= 0
    /\ historyIndex < Len(history) - 1

\* the step exchanged the buffer of the layer of entry k with the snapshot of
\* the entry and left every other buffer, every other entry, the layer list
\* and the active layer id as they were
SwappedAt(k) ==
    LET entry == history[k]
    IN  /\ entry.layerId \in DOMAIN layerCanvases
        /\ DOMAIN layerCanvases' = DOMAIN layerCanvases
        /\ layerCanvases'[entry.layerId].data = entry.imageData
        /\ \A id \in DOMAIN layerCanvases \ {entry.layerId} :
              layerCanvases'[id] = layerCanvases[id]
        /\ Len(history') = Len(history)
        /\ history'[k] = [layerId |-> entry.layerId,
                          imageData |-> layerCanvases[entry.layerId].data]
        /\ \A j \in 1..Len(history) : j # k => history'[j] = history[j]
        /\ UNCHANGED <<layers, activeLayerId>>

\* C27: undo() with the position at an entry and redo() with an entry beyond
\* the position exchange the contents of exactly one layer buffer, the one
\* the selected entry names, with the snapshot of that entry, whether or not
\* that layer is the active one; every other buffer, every other entry, the
\* layer list and the active layer id are unchanged.
C27_SwapScopedToEntryLayer ==
    [][ /\ (historyIndex >= 0 /\ Undo) => SwappedAt(historyIndex + 1)
        /\ (historyIndex < Len(history) - 1 /\ Redo)
              => SwappedAt(historyIndex + 2) ]_vars

\* the same where the selected entry names a layer of the layer store
SwapWhereLayerPresent ==
    [][ /\ ( /\ historyIndex >= 0
             /\ history[historyIndex + 1].layerId \in DOMAIN layerCanvases
             /\ Undo ) => SwappedAt(historyIndex + 1)
        /\ ( /\ historyIndex < Len(history) - 1
             /\ history[historyIndex + 2].layerId \in DOMAIN layerCanvases
             /\ Redo ) => SwappedAt(historyIndex + 2) ]_vars

\* an undo has exchanged the buffer of a layer that is not the active one
SwapOfInactiveLayerReached ==
    /\ Len(history) >= 1
    /\ historyIndex = -1
    /\ history[1].layerId # activeLayerId
    /\ history[1].layerId \in DOMAIN layerCanvases
    /\ activeLayerId \in DOMAIN layerCanvases

\* C28: after a stroke with the pen or the eraser has finished, the
\* composition mode of every layer buffer is source-over, also when the
\* active layer was changed between pointer-down and the end of the stroke.
C28_CompositionModeRestored ==
    (obs.stroke.ended /\ ~isDrawing) =>
        \A id \in DOMAIN layerCanvases : layerCanvases[id].gco = "source-over"

\* the same for the strokes that end with the layer active that was active
\* at pointer-down
ModeRestoredOnSameLayer ==
    [][ ( /\ isDrawing
          /\ obs'.stroke.ended
          /\ activeLayerId = obs.stroke.layer
          /\ \A id \in DOMAIN layerCanvases \ {activeLayerId} :
                layerCanvases[id].gco = "source-over" )
            => \A id \in DOMAIN layerCanvases' :
                  layerCanvases'[id].gco = "source-over" ]_vars

\* C29: between draw-start and draw-end a stroke changes the pixels of one
\* layer only, the layer that was active at draw-start, for every
\* interleaving of select-layer, add-layer and delete-layer with the
\* draw-moves: every other buffer holds what it held at draw-start, and a
\* layer added since is blank.
C29_StrokeMutatesOneLayer ==
    obs.stroke.layer # NoLayer =>
        \A id \in DOMAIN layerCanvases \ {obs.stroke.layer} :
            layerCanvases[id].data =
                IF id \in DOMAIN obs.stroke.store THEN obs.stroke.store[id]
                                                  ELSE BlankData

\* the draw-moves made while the layer of the pointer-down is the active one
\* change no other buffer
MovesOnStartLayerKeepOthers ==
    [][ \A x \in Xs, y \in Ys :
          (handlePointerMove(x, y) /\ activeLayerId = obs.stroke.layer)
             => \A id \in DOMAIN layerCanvases \ {obs.stroke.layer} :
                   layerCanvases'[id] = layerCanvases[id] ]_vars

\* C30: a stroke is finalized by the release on the canvas or by the release
\* on the window; when both fire for one release, or a release comes with no
\* stroke in progress, the stroke is committed at most once: a stroke that
\* has ended has added exactly one history entry, a stroke in progress none,
\* and a release without a stroke changes nothing.
C30_StrokeCommittedOnce ==
    [][ /\ obs'.mark = "idleRelease" => UNCHANGED coreVars
        /\ obs'.stroke.ended => obs'.stroke.commits = 1
        /\ (obs'.stroke.layer # NoLayer /\ ~obs'.stroke.ended)
              => obs'.stroke.commits = 0 ]_vars

\* a stroke with a draw-move was released, a second release has followed,
\* and the history holds the one entry of the stroke
C30_Witness ==
    /\ obs.mark = "idleRelease"
    /\ obs.stroke.ended
    /\ obs.stroke.commits = 1
    /\ ~isDrawing
    /\ Len(history) = 1
    /\ history[1].imageData = obs.stroke.store[obs.stroke.layer]
    /\ obs.stroke.layer \in DOMAIN layerCanvases
    /\ \A p \in PixelIdx :
          layerCanvases[obs.stroke.layer].data[p]
              # obs.stroke.store[obs.stroke.layer][p]

\* C31: floodFill terminates for every buffer content and every in-bounds
\* seed, a fill covering the whole canvas included: no pixel is filled more
\* than once, and a region-growth loop that has begun reaches an empty
\* stack, where it ends.
C31_FillTerminates ==
    /\ [](\A p \in DOMAIN obs.loop.fills : obs.loop.fills[p] <= 1)
    /\ (obs.loop.phase = "filling") ~> (obs.loop.s.stack = <<>>)

\* a completed loop that filled every pixel of the canvas
C31_Witness ==
    /\ obs.loop.phase = "done"
    /\ obs.loop.s.stack = <<>>
    /\ obs.loop.s.visited = RegionPixels
    /\ \A p \in RegionPixels : obs.loop.fills[p] = 1

\* the loop run one iteration at a time ends in what HardFill computes
LoopMatchesHardFill ==
    obs.loop.phase = "done" =>
        obs.loop.s = HardFill(RegionWidth, RegionHeight, obs.loop.base,
                              obs.loop.seed[1], obs.loop.seed[2], Black)

\* C32: in each of the three edge-softening passes, the pixels blended are
\* those outside the expanded set as it stood when the pass began that have a
\* four-neighbour in that set and a positive background fraction: a pixel
\* blended earlier in the pass makes no other pixel eligible; and no pixel is
\* blended in two passes.
C32_PassReadsStartMembership ==
    LET ps == obs.edge.passes
    IN  /\ \A k \in DOMAIN ps :
              ps[k].newly = NewlyExpanded(EdgeWidth, 1, ps[k].data,
                                          ps[k].expanded, EdgeTarget)
        /\ \A k \in DOMAIN ps : \A i \in ps[k].newly :
              /\ i \notin ps[k].expanded
              /\ hasExpandedNeighbor(EdgeWidth, 1, i, ps[k].expanded)
        /\ \A j, k \in DOMAIN ps : j # k => ps[j].newly \cap ps[k].newly = {}

\* a completed fill each of whose passes blended a pixel, the later ones a
\* neighbour of a pixel the pass before had blended
C32_Witness ==
    /\ obs.edge.phase = "done"
    /\ \A k \in 1..3 : obs.edge.passes[k].newly # {}
    /\ \E i \in obs.edge.passes[2].newly :
          hasExpandedNeighbor(EdgeWidth, 1, i, obs.edge.passes[1].newly)

\* the passes run one at a time end in the data floodFill writes back
PassesMatchFloodFilled ==
    obs.edge.phase = "done" =>
        /\ layerCanvases[1].data = obs.edge.data
        /\ obs.edge.data = FloodFilled(EdgeWidth, 1, obs.edge.base,
                                       obs.edge.seed[1], 0, Red)

\* the document built by export-project holds one layerImages entry for
\* every layer in the store
OneImagePerLayer ==
    LET r == obs.round
    IN  r.phase # "editing" =>
           /\ Len(r.doc.layerImages) = Cardinality(DOMAIN r.buffers)
           /\ \A id \in DOMAIN r.buffers :
                 \E k \in DOMAIN r.doc.layerImages :
                     r.doc.layerImages[k].id = id

\* once the load has completed, the layer list, the active layer id and
\* every layer's buffer are those of the export
RestoredAsExported ==
    LET r == obs.round
    IN  r.phase = "done" =>
           /\ layers = r.layers
           /\ activeLayerId = r.activeLayerId
           /\ DOMAIN layerCanvases = DOMAIN r.buffers
           /\ \A id \in DOMAIN r.buffers :
                 layerCanvases[id].data = r.buffers[id]

\* C33: export-project followed by import-project of the document produced
\* is a round trip: one layerImages entry for every layer in the store, and
\* after the load the layer list, active layer id and buffers of the export.
C33_ExportImportRoundTrip == OneImagePerLayer /\ RestoredAsExported

\* a round trip completed after an edit, on a two-layer canvas
C33_Witness ==
    /\ obs.round.phase = "done"
    /\ obs.steps > 0
    /\ Len(obs.round.layers) = 2

\* the round trip holds from every export at which each layer's context is
\* in the composition mode source-over
RoundTripWhenSourceOver ==
    (\A id \in DOMAIN layerCanvases : layerCanvases[id].gco = "source-over")
        => RestoredAsExported

\* the list ls with the entries at positions i and j exchanged
Exchanged(ls, i, j) ==
    [k \in 1..Len(ls) |-> IF k = i THEN ls[j] ELSE IF k = j THEN ls[i]
                                                   ELSE ls[k]]

\* C34: reorder-layer(id, direction) exchanges the layer with its neighbour
\* in that direction and leaves the list as it is when no layer has the id or
\* the layer is already at that end; in every case the set of layers, each
\* layer's buffer, the active layer id and the history are unchanged.
C34_ReorderExchangesNeighbours ==
    [][\A id \in OrderIds, dir \in {-1, 1} :
          handleMoveLayer(id, dir) =>
              /\ IF \E i \in 1..Len(layers) :
                        layers[i].id = id /\ i + dir \in 1..Len(layers)
                 THEN \E i \in 1..Len(layers) :
                         /\ layers[i].id = id
                         /\ layers' = Exchanged(layers, i, i + dir)
                 ELSE layers' = layers
              /\ {layers'[i] : i \in 1..Len(layers')} =
                    {layers[i] : i \in 1..Len(layers)}
              /\ Len(layers') = Len(layers)
              /\ DOMAIN layerCanvases' = DOMAIN layerCanvases
              /\ \A l \in DOMAIN layerCanvases :
                    layerCanvases'[l].data = layerCanvases[l].data
              /\ activeLayerId' = activeLayerId
              /\ history' = history
              /\ historyIndex' = historyIndex]_vars

\* a reorder that exchanged two of three layers, moving L3 off the top,
\* with an entry in the history
C34_Witness ==
    /\ obs.mark = "exchanged"
    /\ Len(layers) = 3
    /\ layers[1].id # 3
    /\ history # <<>>

\* reorders that found no layer of the id, and the layer at the end
C34_NoOpsReached == obs.mark \in {"unknownId", "atEnd"}

\* C35: in every reachable state the history position p satisfies
\* -1 <= p <= (number of entries) - 1, whatever commits, undos, redos, purges
\* and loads led there.
C35_PositionWithinHistory ==
    /\ -1 <= historyIndex
    /\ historyIndex <= Len(history) - 1

\* a purge that removed entries on both sides of the position and left
\* entries on both sides of it
C35_Witness ==
    /\ obs.mark = "purgedBothSides"
    /\ 0 <= historyIndex
    /\ historyIndex < Len(history) - 1

\* a load that emptied a history, and a commit that dropped redo entries
C35_LoadReached ==
    obs.load.phase = "done" /\ history = <<>> /\ historyIndex = -1

C35_CommitReached ==
    obs.mark = "overRedo" /\ historyIndex = Len(history) - 1

\* the observer's origins run parallel to the history
OriginsParallel == Len(obs.capture.origins) = Len(history)

\* C36: every history entry's layerId names the layer from whose buffer its
\* snapshot was captured, whatever select-layer, add-layer, delete-layer,
\* fill and clear ran while a stroke was in progress.
C36_EntryNamesCapturedLayer ==
    /\ OriginsParallel
    /\ \A i \in 1..Len(history) : history[i].layerId = obs.capture.origins[i]

\* a step that adds an entry while no snapshot of another layer than the
\* active one is pending names the layer the snapshot was captured from
EntryNamedRightWhenActiveHeld ==
    [][(/\ Len(history') = Len(history) + 1
        /\ obs.capture.layer \in {NoLayer, activeLayerId})
       => history'[Len(history')].layerId
              = obs'.capture.origins[Len(history')]]_vars

\* a history with entries of both layers, each naming the layer its snapshot
\* was captured from
C36_Reached ==
    /\ Len(history) >= 2
    /\ \A i \in 1..Len(history) : history[i].layerId = obs.capture.origins[i]
    /\ \E i, j \in 1..Len(history) : history[i].layerId # history[j].layerId

\* C37: in every reachable state the active layer id names a layer of the
\* layer list, whatever add-layer, delete-layer, select-layer, new-canvas and
\* import-project operations led there.
C37_ActiveLayerListed == activeLayerId \in LayerIds(layers)

\* while the layer list is not empty the active layer id names one of its
\* layers, also after the active layer was deleted
ActiveListedWhileLayersExist ==
    layers # <<>> => activeLayerId \in LayerIds(layers)

\* after a delete-layer, a listed layer older than the newest is active
ActiveDeletedReached ==
    /\ obs.deleted
    /\ Len(layers) >= 1
    /\ activeLayerId \in LayerIds(layers)
    /\ activeLayerId # layerIdCounter

\* undo() changes the position exactly when it exchanges a buffer with the
\* snapshot of the entry it selects
UndoMovesIffSwap ==
    [][Undo => ((historyIndex' # historyIndex)
                   <=> undo(history, historyIndex, layerCanvases).swapped)]_vars

\* C38: undo() and redo() change the history position if and only if they
\* exchange a buffer with the snapshot of the entry they select; when the
\* layer of that entry has no buffer, neither moves the position.
C38_PositionMovesIffSwap ==
    [][/\ Undo => ((historyIndex' # historyIndex)
                      <=> undo(history, historyIndex, layerCanvases).swapped)
       /\ Redo => ((historyIndex' # historyIndex)
                      <=> redo(history, historyIndex, layerCanvases).swapped)
      ]_vars

\* a state in which undo() selects an entry whose layer has no buffer
UndoOfMissingLayerReached ==
    /\ historyIndex >= 0
    /\ history[historyIndex + 1].layerId \notin DOMAIN layerCanvases

\* the pixels among pixels within n edge-sharing steps of a pixel of set
RECURSIVE Near(_, _, _, _)
Near(w, pixels, set, n) ==
    IF n = 0 THEN set
    ELSE Near(w, pixels,
              set \cup { j \in pixels : \E i \in set : Adjacent(w, i, j) },
              n - 1)

\* C39: a fill changes only pixels of the active layer that are in the
\* hard-filled region or within three four-connected steps of it; every
\* pixel it changes ends with alpha 255; the buffers of the other layers are
\* unchanged.
C39_FillChangesNearRegionOnly ==
    obs.edge.phase = "done" =>
        LET base == obs.edge.base
            after == layerCanvases[activeLayerId].data
            region == Component(EdgeWidth, base, obs.edge.seed[1], 0)
            changed == { p \in EdgePixels : after[p] # base[p] }
        IN  /\ changed \subseteq Near(EdgeWidth, EdgePixels, region, 3)
            /\ \A p \in changed : after[p][4] = 255
            /\ \A id \in DOMAIN layerCanvases \ {activeLayerId} :
                  layerCanvases[id].data = [p \in EdgePixels |-> MidGrey]

\* a fill that changed a pixel three steps from the region and left alone a
\* pixel four steps from it that one more pass would have blended
C39_Witness ==
    /\ obs.edge.phase = "done"
    /\ obs.edge.base = [p \in EdgePixels |-> IF p = 1 THEN White ELSE MidGrey]
    /\ obs.edge.seed = <<0, 0>>
    /\ layerCanvases[activeLayerId].data[4] # MidGrey
    /\ layerCanvases[activeLayerId].data[5] = MidGrey
    /\ DOMAIN layerCanvases = {1, 2}

====
